---------------------------- MODULE Spec2Model ----------------------------
(***************************************************************************)
(* State-machine models of the ArbitrageBot trading bots.                  *)
(*                                                                         *)
(*   SpecPB  profit_bot.py: run() with reconcile_positions,                *)
(*           check_exited_positions, check_arbitrage, check_late_game and  *)
(*           execute_late_game, against a broker portfolio and the         *)
(*           positions / performance files.                                *)
(*   SpecFF  flipper_fixed.py: run() and trade_market(), the no-reversal   *)
(*           monitor loop with its take profit and stop loss.              *)
(*   SpecFL  flipper.py: run() and trade_market(), the swing monitor loop. *)
(*   SpecFI  goobclaw_flipper_v3_inverse.py: run() and trade_market().     *)
(*   SpecMA  multi_account_arb.py: run(), find_arbs and execute_dual_arb.  *)
(*   SpecCW  several processes writing the positions and performance files.*)
(*   SpecSZ  the detectors and sizers as functions of their arguments:     *)
(*           check_arbitrage, check_late_game, calculate_obi,              *)
(*           calculate_kalshi_arbitrage, try_scalp and execute_late_game.  *)
(*   SpecFFLive   SpecFF with the monitor loop's steps taken fairly.       *)
(*   SpecPBDisk   SpecPB with a positions file that can become unwritable. *)
(*   SpecBS  bot_state.py: save_state and load_state over the state file.  *)
(*   SpecKS  KalshiScanner.py: run() with its scan, sleep and signal       *)
(*           handler; SpecKSLive is SpecKS with its steps taken fairly.    *)
(*                                                                         *)
(* Each bot is a process of its own: in a bot's specification the          *)
(* variables of the other bots rest at their initial values.               *)
(*                                                                         *)
(* Prices are integer cents, balances integer cents, net profits           *)
(* thousandths of a cent, confidences thousandths.                         *)
(***************************************************************************)
EXTENDS Integers, Sequences, FiniteSets, TLC

VARIABLES
    AUTO_TRADE,              \* the running bot's AUTO_TRADE (fixed for a process run)
    pc,                      \* position of run() in its loop
    positions,               \* run()'s in-memory positions dict
    positionsNone,           \* TRUE when run()'s positions variable holds None
    store,                   \* contents of POSITIONS_FILE
    perf,                    \* contents of PERFORMANCE_LOG (trade counts)
    broker,                  \* exchange portfolio: rows reported per ticker
    reconciliation_counter,  \* run()'s reconciliation_counter
    balance,                 \* run()'s balance of this cycle (0 = None/falsy)
    markets,                 \* tickers of this cycle's market list already examined
    settled,                 \* markets whose close time has passed
    diskOk,                  \* FALSE once writes to the files raise
    write_raised,            \* history: a write to the files has raised
    openEntries,             \* history: entries made per ticker since it opened
    quiet,                   \* history: no fill, entry or expiry since the last
                             \*   reconciliation that read the portfolio
    ev                       \* history: what the last step did

pbVars == <<AUTO_TRADE, pc, positions, positionsNone, store, perf, broker,
            reconciliation_counter, balance, markets, settled, diskOk,
            write_raised,
            openEntries, quiet, ev>>

VARIABLES
    fpc,                     \* position of a flipper's run(): "scan", "for", "monitor"
    traded,                  \* run()'s traded set
    scanned,                 \* tickers of this scan's list the for loop has passed
    trade,                   \* trade_market()'s locals: ticker, side, entry,
                             \*   total_loss, flips
    bids,                    \* history: bids the monitor loop has evaluated
    orders,                  \* history: orders placed for the current trade
    ended,                   \* history: how the monitor loop of the trade ended
    tick,                    \* history: what the monitoring tick of this step
                             \*   fetched (time left, bid of the held side)
    since_scan               \* seconds since flipper_fixed's scan_markets() returned

trVars == <<fpc, traded, scanned, trade, bids, orders, ended, tick, since_scan>>

VARIABLES
    mpc,                     \* position of multi_account_arb's run()
    last_arbs,               \* run()'s last_arbs set
    arbs,                    \* what is left of this scan's sorted arbs list
    cycle,                   \* history: the arbs executed in this scan, in order
    legs,                    \* contracts each account holds per ticker
    dual_ret                 \* what execute_dual_arb returned per ticker

maVars == <<mpc, last_arbs, arbs, cycle, legs, dual_ret>>

VARIABLES
    wpc,                     \* position of each writer process in execute_late_game
    wticker,                 \* the ticker each writer process is entering
    wperf,                   \* each writer's perf dict (from load_performance)
    wpositions,              \* each writer's in-memory positions dict
    posted,                  \* history: trades posted to the ledger by any writer
    entered                  \* history: tickers entered by any writer

cwVars == <<wpc, wticker, wperf, wpositions, posted, entered>>

VARIABLES
    zfn,                     \* the detector or sizer last called ("none" before any)
    zin,                     \* its arguments
    zout                     \* what it returned

szVars == <<zfn, zin, zout>>

VARIABLES
    state_file,              \* bots_state.json: missing, unreadable or its text
    bs_call,                 \* the bot_state function last called ("none" before any)
    bs_state,                \* the map last passed to save_state
    bs_loaded                \* the map load_state last returned

bsVars == <<state_file, bs_call, bs_state, bs_loaded>>

VARIABLES
    running,                 \* KalshiScannerBot.running
    kpc,                     \* position of KalshiScannerBot.run()
    ksleep,                  \* iterations left of run()'s one-second sleep loop
    kscans,                  \* scans started
    kwrites,                 \* scanner_state.json writes completed by scan()
    trades_today,            \* KalshiScannerBot.trades_today
    signalled                \* kscans when the shutdown signal arrived (-1: none yet)

ksVars == <<running, kpc, ksleep, kscans, kwrites, trades_today, signalled>>

vars == <<pbVars, trVars, maVars, cwVars, szVars, bsVars, ksVars>>

(* What profit_bot.py, the flippers and multi_account_arb.py never touch. *)
otherThanPB == <<trVars, maVars, cwVars, szVars, bsVars, ksVars>>
otherThanTR == <<pbVars, maVars, cwVars, szVars, bsVars, ksVars>>
otherThanMA == <<pbVars, trVars, cwVars, szVars, bsVars, ksVars>>

---------------------------------------------------------------------------
(* Bounds of the model *)

MaxRows == 2          \* portfolio rows the broker reports per ticker
MaxTrades == 2        \* ledger counts are followed up to this many trades
MaxEntries == 2       \* entries per open market that are followed

Tickers == {"T1", "T2"}

(* Program constants of profit_bot.py *)

TOTAL_FEE_PERMILLE == 12        \* TOTAL_FEE_PCT = 0.012
MIN_ARB_PROFIT_MILLI == 100     \* MIN_ARB_PROFIT = 0.10 (cents)
MAX_COST_HALF_CENTS == 199      \* max_cost = 99.5
KELLY_PCT_DIVISOR == 8          \* kelly_pct = 0.5 * KELLY_FRACTION = 1/8
MAX_PAIRS == 100                \* pairs = max(1, min(pairs, 100))
MIN_LATE_GAP == 3
MAX_TIME_LEFT == 600
MIN_TIME_LEFT == 60
MIN_VOLUME == 5000
BANKROLL_PERMILLE == 20         \* BANKROLL_PCT = 0.02
MAX_BET_TENTHS == 8             \* max_bet = balance * BANKROLL_PCT * 0.8
DECIDED_ASK == 95
RECONCILE_EVERY == 10
BALANCE_CENTS == 5000           \* the bankroll the exchange reports: $50

---------------------------------------------------------------------------
(* Helpers *)

Min(a, b) == IF a < b THEN a ELSE b
Max(a, b) == IF a > b THEN a ELSE b

EmptyMap == [k \in {} |-> 0]
Restrict(f, S) == [k \in (DOMAIN f) \cap S |-> f[k]]
Put(f, k, v) == [x \in (DOMAIN f) \cup {k} |-> IF x = k THEN v ELSE f[x]]

(* The market snapshots get_open_markets() can return, by kind. *)
Snapshot(kind) ==
    CASE kind = "arb"     -> [yes_ask |-> 47, yes_bid |-> 45, no_ask |-> 47, no_bid |-> 45,
                              secs_left |-> 300, volume |-> 6000]
      [] kind = "lateYes" -> [yes_ask |-> 20, yes_bid |-> 18, no_ask |-> 82, no_bid |-> 80,
                              secs_left |-> 300, volume |-> 6000]
      [] kind = "flat"    -> [yes_ask |-> 51, yes_bid |-> 49, no_ask |-> 51, no_bid |-> 49,
                              secs_left |-> 300, volume |-> 6000]
      [] kind = "decided" -> [yes_ask |-> 96, yes_bid |-> 94, no_ask |-> 6, no_bid |-> 4,
                              secs_left |-> 300, volume |-> 6000]

MarketKinds == {"arb", "lateYes", "flat", "decided"}

(* Position records as execute_arbitrage / execute_late_game write them.   *)
(* n is "pairs" of an arbitrage record and "contracts" of a late_game one. *)
ArbRecord(pairs, ya, na) ==
    [type |-> "arbitrage", side |-> "both", n |-> pairs, yes_cost |-> ya, no_cost |-> na]
LateRecord(side, contracts, price) ==
    [type |-> "late_game", side |-> side, n |-> contracts,
     yes_cost |-> IF side = "yes" THEN price ELSE 0,
     no_cost |-> IF side = "no" THEN price ELSE 0]

NoEvent == [op |-> "none", fetch |-> "none", failed |-> {}, alerts |-> 0,
            wrote |-> FALSE, discs |-> {}, prunedArb |-> {}, quiet |-> FALSE,
            orders |-> <<>>, arb_accepted |-> FALSE]

---------------------------------------------------------------------------
(* profit_bot.py: detectors and sizers *)

(* check_arbitrage: the tuple it returns, by market, balance and positions. *)
(* The accepting return has three components, the rejecting ones four.      *)
check_arbitrage(ticker, m, bal, pos) ==
    LET total_cost == m.yes_ask + m.no_ask
        gross_profit_per_pair == 100 - total_cost
        net_profit_per_pair == gross_profit_per_pair * (1000 - TOTAL_FEE_PERMILLE)
        max_pairs == bal \div total_cost
        pairs == Max(1, Min(max_pairs \div KELLY_PCT_DIVISOR, MAX_PAIRS))
    IN  IF ticker \in DOMAIN pos
        THEN <<FALSE, 0, 0, 0>>
        ELSE IF 2 * total_cost < MAX_COST_HALF_CENTS /\ m.yes_ask > 0 /\ m.no_ask > 0
                /\ net_profit_per_pair >= MIN_ARB_PROFIT_MILLI
                /\ pairs >= 1
             THEN <<TRUE, net_profit_per_pair, pairs>>
             ELSE <<FALSE, 0, 0, 0>>

(* A plausible slip: the time and volume tests are left out. *)
check_late_game_any_time(ticker, m, pos) ==
    LET yes2 == m.yes_ask + m.yes_bid
        no2  == m.no_ask + m.no_bid
    IN  IF ticker \in DOMAIN pos THEN <<FALSE, "none", 0>>
        ELSE IF yes2 < 50 /\ no2 > 150 THEN <<TRUE, "yes", 600>>
        ELSE IF no2 < 50 /\ yes2 > 150 THEN <<TRUE, "no", 600>>
        ELSE <<FALSE, "none", 0>>

(* check_late_game: <<should_trade, side, confidence (thousandths)>>. *)
(* yes_mid = yes2 / 2 and no_mid = no2 / 2.                           *)
check_late_game(ticker, m, pos) ==
    LET yes2 == m.yes_ask + m.yes_bid
        no2  == m.no_ask + m.no_bid
        conf(gap2) == Max(600, Min(850, 5 * gap2 - TOTAL_FEE_PERMILLE + 300))
    IN  IF ticker \in DOMAIN pos THEN <<FALSE, "none", 0>>
        ELSE IF m.secs_left > MAX_TIME_LEFT \/ m.secs_left < MIN_TIME_LEFT
             THEN <<FALSE, "none", 0>>
        ELSE IF m.volume < MIN_VOLUME THEN <<FALSE, "none", 0>>
        ELSE IF yes2 < 50 /\ no2 > 150 /\ no2 - yes2 >= 2 * MIN_LATE_GAP
             THEN <<TRUE, "yes", conf(no2 - yes2)>>
        ELSE IF no2 < 50 /\ yes2 > 150 /\ yes2 - no2 >= 2 * MIN_LATE_GAP
             THEN <<TRUE, "no", conf(yes2 - no2)>>
        ELSE <<FALSE, "none", 0>>

(* A plausible slip: the quotient is taken the wrong way round. *)
late_game_contracts_inverted(bal, price) ==
    Max(1, (1000 * 10 * price) \div (bal * BANKROLL_PERMILLE * MAX_BET_TENTHS))

(* execute_late_game: contracts = max(1, int(max_bet * 100 / price)). *)
late_game_contracts(bal, price) ==
    Max(1, (bal * BANKROLL_PERMILLE * MAX_BET_TENTHS) \div (1000 * 10 * price))

---------------------------------------------------------------------------
(* profit_bot.py: reconcile_positions *)

(* The tickers reconcile_positions lists as discrepancies. *)
Discrepancies(st, br) ==
    {t \in DOMAIN st :
        \/ br[t] = 0
        \/ st[t].type = "arbitrage" /\ br[t] # st[t].n * 2}

(* reconcile_positions(): what it returns and leaves in the file, by the  *)
(* outcome of the portfolio request ("ok": 200, "status": another status, *)
(* "error": the request raised).                                          *)
(* A plausible slip in the clean-up: nothing is pruned. *)
cleaned_positions_keep_all(st, br) == st

(* reconcile_positions: the records kept by the auto-cleanup. *)
cleaned_positions(st, br) == Restrict(st, {t \in Tickers : br[t] > 0})

reconcile_positions(fetch, st, br, dOk) ==
    LET discrepancies == Discrepancies(st, br)
    IN  CASE fetch = "error" ->
               [ret |-> st, none |-> FALSE, file |-> st, alerts |-> 0,
                wrote |-> FALSE, discs |-> {}]
          [] fetch = "status" ->
               [ret |-> EmptyMap, none |-> TRUE, file |-> st, alerts |-> 0,
                wrote |-> FALSE, discs |-> {}]
          [] fetch = "ok" /\ discrepancies = {} ->
               [ret |-> st, none |-> FALSE, file |-> st, alerts |-> 0,
                wrote |-> FALSE, discs |-> {}]
          [] fetch = "ok" /\ discrepancies # {} /\ dOk ->
               [ret |-> cleaned_positions(st, br), none |-> FALSE,
                file |-> cleaned_positions(st, br),
                alerts |-> 1, wrote |-> TRUE, discs |-> discrepancies]
          [] fetch = "ok" /\ discrepancies # {} /\ ~dOk ->
               \* save_positions raises: the handler returns load_positions()
               [ret |-> st, none |-> FALSE, file |-> st,
                alerts |-> 1, wrote |-> FALSE, discs |-> discrepancies]

ReconcileEvent(fetch, r) ==
    [op |-> "reconcile", fetch |-> fetch, failed |-> {}, alerts |-> r.alerts,
     wrote |-> r.wrote, discs |-> r.discs,
     prunedArb |-> {t \in (DOMAIN store) \ (DOMAIN r.file) : store[t].type = "arbitrage"},
     quiet |-> quiet, orders |-> <<>>]

(* run(): positions = reconcile_positions() before the loop. *)
Startup ==
    /\ pc = "startup"
    /\ \E fetch \in {"ok", "status", "error"} :
         LET r == reconcile_positions(fetch, store, broker, diskOk) IN
         /\ positions' = r.ret
         /\ positionsNone' = r.none
         /\ store' = r.file
         /\ quiet' = IF fetch = "ok" THEN TRUE ELSE quiet
         /\ ev' = ReconcileEvent(fetch, r)
         /\ write_raised' = (write_raised \/ (r.alerts = 1 /\ ~r.wrote))
    /\ reconciliation_counter' = 0
    /\ pc' = "balance"
    /\ UNCHANGED otherThanPB
    /\ UNCHANGED <<AUTO_TRADE, perf, broker, balance, markets, settled, diskOk,
                   openEntries>>

(* run(): balance = get_balance(); reconciliation_counter += 1. *)
GetBalance ==
    /\ pc = "balance"
    /\ \E b \in {0, BALANCE_CENTS} : balance' = b
    /\ reconciliation_counter' = reconciliation_counter + 1
    /\ pc' = IF reconciliation_counter + 1 >= RECONCILE_EVERY
             THEN "reconcile" ELSE "exited"
    /\ ev' = NoEvent
    /\ UNCHANGED otherThanPB
    /\ UNCHANGED <<AUTO_TRADE, write_raised, positions, positionsNone, store, perf, broker,
                   markets, settled, diskOk, openEntries, quiet>>

(* run(): the reconciliation of every tenth cycle. *)
Reconcile ==
    /\ pc = "reconcile"
    /\ \E fetch \in {"ok", "status", "error"} :
         LET r == reconcile_positions(fetch, store, broker, diskOk) IN
         /\ positions' = r.ret
         /\ positionsNone' = r.none
         /\ store' = r.file
         /\ quiet' = IF fetch = "ok" THEN TRUE ELSE quiet
         /\ ev' = ReconcileEvent(fetch, r)
         /\ write_raised' = (write_raised \/ (r.alerts = 1 /\ ~r.wrote))
    /\ reconciliation_counter' = 0
    /\ pc' = "exited"
    /\ UNCHANGED otherThanPB
    /\ UNCHANGED <<AUTO_TRADE, perf, broker, balance, markets, settled, diskOk,
                   openEntries>>

---------------------------------------------------------------------------
(* profit_bot.py: check_exited_positions *)

(* What get_market(ticker) can answer: "fail" (None or an empty market),   *)
(* "noclose" (no close_time), "active" (secs_left > 0), "expired".         *)
MarketAnswers(t) ==
    IF settled[t] THEN {"fail", "noclose", "expired"}
                  ELSE {"fail", "noclose", "active"}

(* current_positions: the records the loop copies over. *)
current_positions(pos, answer) ==
    Restrict(pos, {t \in DOMAIN pos : answer[t] \in {"noclose", "active"}})

(* run(): positions = check_exited_positions(positions). *)
CheckExited ==
    /\ pc = "exited"
    /\ ~positionsNone
    /\ \E answer \in [DOMAIN positions -> {"fail", "noclose", "active", "expired"}] :
         /\ \A t \in DOMAIN positions : answer[t] \in MarketAnswers(t)
         /\ LET updated == \E t \in DOMAIN positions : answer[t] = "expired"
                current == current_positions(positions, answer)
                failed  == {t \in DOMAIN positions : answer[t] = "fail"}
                raised  == updated /\ ~diskOk
            IN  /\ positions' = IF raised THEN positions ELSE current
                /\ store' = IF updated /\ diskOk THEN current ELSE store
                /\ pc' = IF raised THEN "balance" ELSE "fetch"
                /\ write_raised' = (write_raised \/ raised)
                /\ quiet' = IF updated /\ diskOk THEN FALSE ELSE quiet
                /\ ev' = [NoEvent EXCEPT !.op = "exited",
                                         !.fetch = IF failed = {} THEN "ok" ELSE "fail",
                                         !.failed = failed,
                                         !.wrote = updated /\ diskOk]
    /\ UNCHANGED otherThanPB
    /\ UNCHANGED <<AUTO_TRADE, positionsNone, perf, broker, reconciliation_counter,
                   balance, markets, settled, diskOk, openEntries>>

(* check_exited_positions(None): positions.items() raises, run() sleeps *)
(* and starts the next cycle.                                           *)
CheckExitedNone ==
    /\ pc = "exited"
    /\ positionsNone
    /\ pc' = "balance"
    /\ balance' = 0                      \* a local that the next cycle overwrites
    /\ ev' = [NoEvent EXCEPT !.op = "exited_raised"]
    /\ UNCHANGED otherThanPB
    /\ UNCHANGED <<AUTO_TRADE, write_raised, positions, positionsNone, store, perf, broker,
                   reconciliation_counter, markets, settled, diskOk,
                   openEntries, quiet>>

---------------------------------------------------------------------------
(* profit_bot.py: run(), the scan of one cycle *)

(* get_open_markets(): this cycle's list (empty when the request fails). *)
(* The list is fixed by the exchange when it is fetched and nothing the   *)
(* bot does changes it, so its markets are drawn one by one as the loop   *)
(* reaches them: markets holds the tickers the loop has passed.           *)
GetOpenMarkets ==
    /\ pc = "fetch"
    /\ markets' = {}
    /\ pc' = "scan"
    /\ ev' = NoEvent
    /\ UNCHANGED otherThanPB
    /\ UNCHANGED <<AUTO_TRADE, write_raised, positions, positionsNone, store, perf, broker,
                   reconciliation_counter, balance, settled, diskOk, openEntries,
                   quiet>>

(* The markets the loop can reach next: open ones not yet passed. *)
NextMarkets == {t \in Tickers : ~settled[t] /\ t \notin markets}

(* The loop body's first tests: decided or empty markets are skipped. *)
SkipMarket(m) ==
    \/ m.yes_ask >= DECIDED_ASK \/ m.no_ask >= DECIDED_ASK
    \/ m.yes_ask = 0 \/ m.no_ask = 0

(* "arb, profit, pairs, _ = check_arbitrage(...)" raises ValueError when *)
(* the tuple returned has not four components.                            *)
UnpackRaises(t, m) ==
    /\ balance # 0 /\ m.yes_ask > 0 /\ m.no_ask > 0
    /\ Len(check_arbitrage(t, m, balance, positions)) # 4

(* The late-game branch is taken. *)
LateGameTaken(t, m) ==
    /\ balance # 0
    /\ check_late_game(t, m, positions)[1]
    /\ check_late_game(t, m, positions)[3] >= 500

(* One market of the cycle that leads to no trade. *)
ScanNoTrade ==
    /\ pc = "scan"
    /\ \E t \in NextMarkets, kind \in MarketKinds :
         LET m == Snapshot(kind) IN
         /\ \/ SkipMarket(m)
            \/ /\ ~UnpackRaises(t, m)
               /\ ~LateGameTaken(t, m)
         /\ markets' = markets \cup {t}
         /\ ev' = NoEvent
    /\ UNCHANGED otherThanPB
    /\ UNCHANGED <<AUTO_TRADE, write_raised, pc, positions, positionsNone, store, perf, broker,
                   reconciliation_counter, balance, settled, diskOk, openEntries,
                   quiet>>

(* One market of the cycle that check_arbitrage accepts: the unpacking   *)
(* raises, run()'s handler sleeps and the next cycle starts.             *)
ScanUnpackError ==
    /\ pc = "scan"
    /\ \E t \in NextMarkets, kind \in MarketKinds :
         LET m == Snapshot(kind) IN
         /\ ~SkipMarket(m) /\ UnpackRaises(t, m)
         /\ ev' = [NoEvent EXCEPT !.op = "scan_raised",
                                  !.arb_accepted =
                                      check_arbitrage(t, m, balance, positions)[1]]
    /\ markets' = {}
    /\ balance' = 0                      \* a local that the next cycle overwrites
    /\ pc' = "balance"
    /\ UNCHANGED otherThanPB
    /\ UNCHANGED <<AUTO_TRADE, write_raised, positions, positionsNone, store, perf, broker,
                   reconciliation_counter, settled, diskOk, openEntries,
                   quiet>>

BuyOrder(t, side, price, count, ok) ==
    [ticker |-> t, side |-> side, action |-> "buy", price |-> price,
     count |-> count, ok |-> ok]

(* execute_late_game in dry-run mode: the simulated outcome is posted to *)
(* the ledger, the position recorded and saved.                          *)
ExecuteLateGamePaper ==
    /\ pc = "scan"
    /\ ~AUTO_TRADE
    /\ \E t \in NextMarkets, kind \in MarketKinds :
       LET m == Snapshot(kind)
           side == check_late_game(t, m, positions)[2]
           price == IF side = "yes" THEN m.yes_ask ELSE m.no_ask
           contracts == late_game_contracts(balance, price)
           newPos == Put(positions, t, LateRecord(side, contracts, price))
       IN  /\ ~SkipMarket(m) /\ ~UnpackRaises(t, m) /\ LateGameTaken(t, m)
           /\ perf.late_trades < MaxTrades
           /\ openEntries[t] < MaxEntries
           /\ IF diskOk
              THEN /\ perf' = [perf EXCEPT !.late_trades = @ + 1]
                   /\ positions' = newPos
                   /\ store' = newPos
                   /\ markets' = markets \cup {t}
                   /\ pc' = pc
                   /\ openEntries' = [openEntries EXCEPT ![t] = @ + 1]
                   /\ quiet' = FALSE
              ELSE \* save_performance raises before anything is recorded
                   /\ markets' = {}
                   /\ pc' = "balance"
                   /\ UNCHANGED <<perf, positions, store, openEntries, quiet>>
           /\ ev' = [NoEvent EXCEPT !.op = "late_game", !.wrote = diskOk]
    /\ write_raised' = (write_raised \/ ~diskOk)
    /\ UNCHANGED otherThanPB
    /\ UNCHANGED <<AUTO_TRADE, positionsNone, broker, reconciliation_counter,
                   balance, settled, diskOk>>

(* execute_late_game in live mode: the order is placed, and the position *)
(* recorded and saved whatever the order's result.                       *)
ExecuteLateGameLive ==
    /\ pc = "scan"
    /\ AUTO_TRADE
    /\ \E t \in NextMarkets, kind \in MarketKinds :
       LET m == Snapshot(kind)
           side == check_late_game(t, m, positions)[2]
           price == IF side = "yes" THEN m.yes_ask ELSE m.no_ask
           contracts == late_game_contracts(balance, price)
           newPos == Put(positions, t, LateRecord(side, contracts, price))
       IN  /\ ~SkipMarket(m) /\ ~UnpackRaises(t, m) /\ LateGameTaken(t, m)
           /\ openEntries[t] < MaxEntries
           /\ \E ok \in BOOLEAN, filled \in BOOLEAN :
                /\ broker' = IF ok /\ filled
                             THEN [broker EXCEPT ![t] = Max(@, 1)] ELSE broker
                /\ openEntries' = [openEntries EXCEPT ![t] = IF ok THEN @ + 1 ELSE @]
                /\ ev' = [NoEvent EXCEPT !.op = "late_game", !.wrote = diskOk,
                                         !.orders = <<BuyOrder(t, side, price, contracts, ok)>>]
           /\ positions' = newPos
           /\ quiet' = FALSE
           /\ IF diskOk
              THEN /\ store' = newPos
                   /\ markets' = markets \cup {t}
                   /\ pc' = pc
              ELSE \* save_positions raises after the dict was updated
                   /\ store' = store
                   /\ markets' = {}
                   /\ pc' = "balance"
    /\ write_raised' = (write_raised \/ ~diskOk)
    /\ UNCHANGED otherThanPB
    /\ UNCHANGED <<AUTO_TRADE, positionsNone, perf, reconciliation_counter,
                   balance, settled, diskOk>>

(* run(): the cycle's list is exhausted; sleep and start the next cycle. *)
ScanDone ==
    /\ pc = "scan"
    /\ pc' = "balance"
    /\ balance' = 0 /\ markets' = {}     \* locals that the next cycle overwrites
    /\ ev' = NoEvent
    /\ UNCHANGED otherThanPB
    /\ UNCHANGED <<AUTO_TRADE, write_raised, positions, positionsNone, store, perf, broker,
                   reconciliation_counter, settled, diskOk, openEntries, quiet>>

---------------------------------------------------------------------------
(* The environment of profit_bot.py *)

(* A market's close time passes: it settles and leaves the portfolio.  *)
(* The environment's steps are taken during run()'s sleep between two   *)
(* cycles, where the process spends its time.                           *)
Settle ==
    \E t \in Tickers :
       /\ pc = "balance"
       /\ ~settled[t]
       /\ settled' = [settled EXCEPT ![t] = TRUE]
       /\ broker' = [broker EXCEPT ![t] = 0]
       /\ openEntries' = [openEntries EXCEPT ![t] = 0]
       /\ quiet' = FALSE
       /\ ev' = NoEvent
       /\ UNCHANGED otherThanPB
       /\ UNCHANGED <<AUTO_TRADE, write_raised, pc, positions, positionsNone, store, perf,
                      reconciliation_counter, balance, markets, diskOk>>

(* Writes to the files start to raise. *)
DiskFails ==
    /\ pc = "balance"
    /\ diskOk
    /\ diskOk' = FALSE
    /\ quiet' = FALSE
    /\ ev' = [NoEvent EXCEPT !.op = "disk"]
    /\ UNCHANGED otherThanPB
    /\ UNCHANGED <<AUTO_TRADE, write_raised, pc, positions, positionsNone, store, perf, broker,
                   reconciliation_counter, balance, markets, settled, openEntries>>

---------------------------------------------------------------------------
(* profit_bot.py: the specification *)

(* The flipper bots are other processes: their variables rest. *)
NoTrade == [ticker |-> "none", side |-> "none", entry |-> 0, total_loss |-> 0,
            flips |-> 0]
NoTick == [secs |-> "none", bid |-> 0]
Tick(secs, bid) == [secs |-> secs, bid |-> bid]
IdleTR ==
    /\ fpc = "scan" /\ traded = {} /\ scanned = {}
    /\ trade = NoTrade /\ bids = <<>> /\ orders = <<>> /\ ended = "none"
    /\ tick = NoTick
    /\ since_scan = 0

(* multi_account_arb.py is another process: its variables rest. *)
IdleMA ==
    /\ mpc = "start" /\ last_arbs = {} /\ arbs = <<>> /\ cycle = <<>>
    /\ legs = [t \in Tickers |-> [yes |-> 0, no |-> 0]]
    /\ dual_ret = [t \in Tickers |-> "none"]

(* The processes that share the files, when none of them is writing. *)
Writers == {1, 2}
IdleCW ==
    /\ wpc = [w \in Writers |-> "idle"]
    /\ wticker = [w \in Writers |-> "none"]
    /\ wperf = [w \in Writers |-> [arb_trades |-> 0, late_trades |-> 0]]
    /\ wpositions = [w \in Writers |-> EmptyMap]
    /\ posted = 0
    /\ entered = {}

(* The arguments and the result of a detector or sizer call; a field a *)
(* call does not use is 0 or FALSE.                                   *)
Args(ya, yb, na, nb, bal, held, price) ==
    [yes_ask |-> ya, yes_bid |-> yb, no_ask |-> na, no_bid |-> nb,
     bal |-> bal, held |-> held, price |-> price]

Result(ok, net, n, raised) ==
    [ok |-> ok, net |-> net, n |-> n, raised |-> raised]

NoArgs == Args(0, 0, 0, 0, 0, FALSE, 0)
NoResult == Result(FALSE, 0, 0, FALSE)

IdleSZ ==
    /\ zfn = "none"
    /\ zin = NoArgs
    /\ zout = NoResult

(* bots_state.json: absent, present but not readable as JSON, or holding *)
(* the text of a JSON object.                                           *)
MissingFile == [kind |-> "missing", text |-> {}]
UnreadableFile == [kind |-> "unreadable", text |-> {}]
TextFile(text) == [kind |-> "text", text |-> text]

IdleBS ==
    /\ state_file = MissingFile
    /\ bs_call = "none"
    /\ bs_state = EmptyMap
    /\ bs_loaded = EmptyMap

IdleKS ==
    /\ running = TRUE
    /\ kpc = "init"
    /\ ksleep = 0
    /\ kscans = 0
    /\ kwrites = 0
    /\ trades_today = 0
    /\ signalled = -1

(* Records a positions file can hold when the process starts. *)
InitRecords == {ArbRecord(1, 47, 47), LateRecord("yes", 4, 20)}
InitStores == UNION {[S -> InitRecords] : S \in SUBSET Tickers}

InitPB ==
    /\ AUTO_TRADE \in BOOLEAN
    /\ pc = "startup"
    /\ positions = EmptyMap
    /\ positionsNone = FALSE
    /\ store \in InitStores
    /\ perf = [arb_trades |-> 0, late_trades |-> 0]
    /\ broker \in [Tickers -> 0..MaxRows]
    /\ reconciliation_counter = 0
    /\ balance = 0
    /\ markets = {}
    /\ settled = [t \in Tickers |-> FALSE]
    /\ diskOk = TRUE
    /\ write_raised = FALSE
    /\ openEntries = [t \in Tickers |-> 0]
    /\ quiet = FALSE
    /\ ev = NoEvent
    /\ IdleTR
    /\ IdleMA
    /\ IdleCW
    /\ IdleSZ
    /\ IdleBS
    /\ IdleKS

NextPB ==
    \/ Startup
    \/ GetBalance
    \/ Reconcile
    \/ CheckExited
    \/ CheckExitedNone
    \/ GetOpenMarkets
    \/ ScanNoTrade
    \/ ScanUnpackError
    \/ ExecuteLateGamePaper
    \/ ExecuteLateGameLive
    \/ ScanDone
    \/ Settle

SpecPB == InitPB /\ [][NextPB]_vars

(* profit_bot.py on a disk whose writes start to raise. *)
NextPBDisk ==
    \/ NextPB
    \/ DiskFails

SpecPBDisk == InitPB /\ [][NextPBDisk]_vars

---------------------------------------------------------------------------
(* Properties of profit_bot.py *)

(* C1: at most one open position per ticker: the bot never makes a second *)
(* entry (an accepted entry order, or a recorded paper position) for a    *)
(* ticker whose market is still open and which it already entered.        *)
C1_OneOpenPositionPerTicker ==
    \A t \in Tickers : openEntries[t] <= 1

(* C4: when the store holds an arbitrage record for X and the portfolio   *)
(* reports nothing for X, one reconciliation run removes X's record,      *)
(* keeps every record whose ticker the portfolio reports as it was, and   *)
(* sends exactly one alert.                                               *)
C4_ReconcilePrunesMissingArbitrage ==
    [][ (ev'.op = "reconcile" /\ ev'.fetch = "ok" /\ diskOk) =>
          \A x \in DOMAIN store :
             (store[x].type = "arbitrage" /\ broker[x] = 0) =>
                /\ x \notin DOMAIN store'
                /\ ~positionsNone' /\ x \notin DOMAIN positions'
                /\ \A k \in DOMAIN store :
                      broker[k] > 0 => /\ k \in DOMAIN store'
                                       /\ store'[k] = store[k]
                                       /\ k \in DOMAIN positions'
                                       /\ positions'[k] = store[k]
                /\ ev'.alerts = 1 ]_vars

(* C4 witness: a run that pruned an arbitrage record and kept another record. *)
C4_Witness ==
    /\ ev.op = "reconcile" /\ ev.fetch = "ok"
    /\ ev.prunedArb # {}
    /\ ev.alerts = 1
    /\ DOMAIN store # {}

(* C5: a reconciliation run that follows one which read the portfolio,    *)
(* with no fill, entry or expiry in between, finds no discrepancy: it     *)
(* sends no alert and writes nothing.                                     *)
C5_ReconcileIdempotent ==
    (ev.op = "reconcile" /\ ev.fetch = "ok" /\ ev.quiet) =>
        (ev.discs = {} /\ ev.alerts = 0 /\ ~ev.wrote)

(* C6: a failing fetch leaves the position records as they were: a        *)
(* portfolio request that fails in the periodic reconciliation changes    *)
(* neither the in-memory positions nor the file, and a market request     *)
(* that fails in check_exited_positions loses no record of its ticker.    *)
C6_FailedFetchKeepsPositions ==
    [][ /\ (pc = "reconcile" /\ ev'.op = "reconcile" /\ ev'.fetch # "ok") =>
              /\ positionsNone' = positionsNone
              /\ positions' = positions
              /\ store' = store
        /\ (ev'.op = "exited") =>
              \A t \in ev'.failed :
                 /\ t \in DOMAIN positions' /\ positions'[t] = positions[t]
                 /\ t \in DOMAIN store => (t \in DOMAIN store' /\ store'[t] = store[t])
      ]_vars

(* C13: an error raised while one market of a cycle is processed does *)
(* not halt the cycle: the for loop stays in its scan, where the other *)
(* markets of the cycle's list are evaluated.                          *)
C13_ErrorDoesNotHaltCycle ==
    [][ (pc = "scan" /\ ev'.op = "scan_raised") => pc' = "scan" ]_vars

---------------------------------------------------------------------------
(* flipper_fixed.py: constants, order book imbalance and pick_side *)

MaxTicks == 3         \* ticks a monitor loop can hold before it must end

STOP_LOSS_CENTS == 2
TAKE_PROFIT_CENTS == 3
MAX_ENTRY_PRICE == 55
FORCE_ENTRY_PRICE == 55
MAX_FLIPS == 0
CONTRACTS == 1
FIXED_CONTRACTS == 1
MIN_SECS_LEFT == 300
MAX_SECS_LEFT == 840
TICK_SECS == 4        \* time.sleep(4) of the monitor loop

(* get_contracts(balance, entry_price): the fixed size when one is set, *)
(* else one contract per 50 cents of bankroll, between 1 and 10; bal is *)
(* in cents and 0 stands for a balance that could not be read.          *)
get_contracts(bal, entry_price) ==
    IF FIXED_CONTRACTS > 0 THEN FIXED_CONTRACTS
    ELSE IF bal > 0 /\ entry_price > 0 THEN Max(1, Min(bal \div 50, 10))
    ELSE 1
OBI_DEPTH == 5
TRADED_LIMIT == 500

(* Tickers whose series is a key of COIN_MAP. *)
CoinTickers == {"T1"}

RECURSIVE SumQty(_, _)
(* sum(q for p, q in levels[:depth]) *)
SumQty(levels, depth) ==
    IF depth = 0 \/ levels = <<>> THEN 0
    ELSE Head(levels)[2] + SumQty(Tail(levels), depth - 1)

(* calculate_obi as the fraction <<yes_volume - no_volume, total>>; *)
(* <<0, 1>> when the book is empty.                                  *)
calculate_obi(ob) ==
    LET yes_volume == SumQty(ob.yes, OBI_DEPTH)
        no_volume == SumQty(ob.no, OBI_DEPTH)
        total == yes_volume + no_volume
    IN  IF total = 0 THEN <<0, 1>> ELSE <<yes_volume - no_volume, total>>

Abs(x) == IF x < 0 THEN -x ELSE x

(* pick_side: <<side, entry_price, signal>>; live is what get_live_price *)
(* gives against the market's floor_strike: "none", "above" or "below".  *)
pick_side(t, m, ob, live) ==
    LET obi == calculate_obi(ob)
        obi_side == IF obi[1] > 0 THEN "yes" ELSE "no"
        obi_price == IF obi_side = "yes" THEN m.yes_ask ELSE m.no_ask
    IN  IF 10 * Abs(obi[1]) >= obi[2] /\ obi_price <= MAX_ENTRY_PRICE
        THEN <<obi_side, obi_price, "OBI">>
        ELSE IF t \in CoinTickers /\ live = "above"
        THEN <<"yes", m.yes_ask, "price_above_floor">>
        ELSE IF t \in CoinTickers /\ live = "below"
        THEN <<"no", m.no_ask, "price_below_floor">>
        ELSE IF m.yes_ask <= m.no_ask /\ m.yes_ask <= FORCE_ENTRY_PRICE
        THEN <<"yes", m.yes_ask, "cheapest_yes">>
        ELSE IF m.no_ask <= FORCE_ENTRY_PRICE
        THEN <<"no", m.no_ask, "cheapest_no">>
        ELSE <<"none", 50, "no_edge">>

(* The markets scan_markets() returns and the books get_orderbook() returns. *)
FFMarkets == {[yes_ask |-> 50, no_ask |-> 52], [yes_ask |-> 58, no_ask |-> 58]}
OrderBooks == {[yes |-> <<>>, no |-> <<>>],
               [yes |-> <<<<49, 30>>, <<48, 5>>>>, no |-> <<<<49, 10>>>>],
               [yes |-> <<<<47, 10>>>>, no |-> <<<<51, 30>>>>]}
LivePrices == {"none", "above", "below"}

(* Seconds to the close of a market when scan_markets() lists it: the *)
(* request asks for MIN_SECS_LEFT to MAX_SECS_LEFT.                   *)
FFCloseIn == {MIN_SECS_LEFT, MAX_SECS_LEFT}

(* secs_left(close_time) when trade_market reads the clock. *)
secs_left(close_in, elapsed) == close_in - elapsed

(* Bids get_market() reports while a position is monitored. *)
FFBids == {47, 48, 49, 50, 53, 55}

Order(action, o_side, price, ok, count) ==
    [action |-> action, side |-> o_side, price |-> price, ok |-> ok,
     count |-> count]

---------------------------------------------------------------------------
(* flipper_fixed.py: run() and trade_market() *)

(* run(): markets = scan_markets(); the list (empty when the request    *)
(* fails) is drawn market by market as the for loop reaches them.        *)
ScanMarkets ==
    /\ fpc = "scan"
    /\ fpc' = "for"
    /\ scanned' = {}
    /\ UNCHANGED <<traded, trade, bids, orders, ended>>
    /\ tick' = NoTick
    /\ since_scan' = 0
    /\ UNCHANGED otherThanTR

(* run(): "if ticker in traded or sl is None or sl <= 0: continue". *)
ForSkip ==
    /\ fpc = "for"
    /\ \E t \in Tickers \ scanned, slBad \in BOOLEAN :
         /\ t \in traded \/ slBad
         /\ scanned' = scanned \cup {t}
    /\ UNCHANGED <<fpc, traded, trade, bids, orders, ended>>
    /\ tick' = NoTick
    /\ UNCHANGED since_scan
    /\ UNCHANGED otherThanTR

(* trade_market returns before an entry: pick_side finds no side, or the *)
(* close time has passed or cannot be read.                              *)
TradeMarketNoEntry ==
    /\ fpc = "for"
    /\ \E t \in (Tickers \ scanned) \ traded, m \in FFMarkets, ob \in OrderBooks,
          live \in LivePrices, slBad \in BOOLEAN :
         /\ pick_side(t, m, ob, live)[1] = "none" \/ slBad
         /\ traded' = traded \cup {t}
         /\ scanned' = scanned \cup {t}
    /\ UNCHANGED <<fpc, trade, bids, orders, ended>>
    /\ tick' = NoTick
    /\ UNCHANGED since_scan
    /\ UNCHANGED otherThanTR

(* trade_market in live mode: the entry order is refused and it returns. *)
TradeMarketEntryFailed ==
    /\ fpc = "for"
    /\ AUTO_TRADE
    /\ \E t \in (Tickers \ scanned) \ traded, m \in FFMarkets, ob \in OrderBooks,
          live \in LivePrices, close_in \in FFCloseIn :
         LET pick == pick_side(t, m, ob, live) IN
         /\ pick[1] # "none"
         /\ secs_left(close_in, since_scan) > 0
         /\ traded' = traded \cup {t}
         /\ scanned' = scanned \cup {t}
         /\ trade' = NoTrade
         /\ bids' = <<>>
         /\ orders' = <<Order("buy", pick[1], pick[2], FALSE, CONTRACTS)>>
         /\ ended' = "none"
    /\ UNCHANGED fpc
    /\ tick' = NoTick
    /\ UNCHANGED since_scan
    /\ UNCHANGED otherThanTR

(* trade_market enters: the order is accepted (live) or assumed (paper), *)
(* and the monitor loop starts with total_loss = 0 and flips = 0.        *)
TradeMarketEnter ==
    /\ fpc = "for"
    /\ \E t \in (Tickers \ scanned) \ traded, m \in FFMarkets, ob \in OrderBooks,
          live \in LivePrices, close_in \in FFCloseIn :
         LET pick == pick_side(t, m, ob, live) IN
         /\ pick[1] # "none"
         /\ secs_left(close_in, since_scan) > 0
         /\ traded' = traded \cup {t}
         /\ scanned' = scanned \cup {t}
         /\ trade' = [ticker |-> t, side |-> pick[1], entry |-> pick[2],
                      total_loss |-> 0, flips |-> 0,
                      current_obi |-> calculate_obi(ob), market |-> m,
                      close_in |-> close_in,
                      sl |-> secs_left(close_in, since_scan)]
         /\ bids' = <<>>
         /\ orders' = IF AUTO_TRADE THEN <<Order("buy", pick[1], pick[2], TRUE, CONTRACTS)>>
                                    ELSE <<>>
         /\ ended' = "open"
    /\ fpc' = "monitor"
    /\ tick' = NoTick
    /\ UNCHANGED since_scan
    /\ UNCHANGED otherThanTR

(* Monitor loop: get_market fails ("if not m: break"). *)
MonitorFetchFails ==
    /\ fpc = "monitor"
    /\ tick' = NoTick
    /\ ended' = "fetch_failed"
    /\ fpc' = "for"
    /\ UNCHANGED <<traded, scanned, trade, bids, orders>>
    /\ since_scan' = since_scan + TICK_SECS
    /\ UNCHANGED otherThanTR

(* A plausible slip: the expiry test prints and the loop goes on. *)
MonitorExpiredStays ==
    /\ fpc = "monitor"
    /\ \E bid \in FFBids : tick' = Tick("over", bid)
    /\ UNCHANGED <<fpc, traded, scanned, trade, bids, orders, ended>>
    /\ since_scan' = Max(since_scan, trade.close_in)
    /\ UNCHANGED otherThanTR

(* Monitor loop: the market's close time has passed; the loop ends *)
(* before the bid is read.                                         *)
MonitorExpiredSells ==
    /\ fpc = "monitor"
    /\ \E bid \in FFBids, ok \in BOOLEAN :
         /\ tick' = Tick("over", bid)
         /\ orders' = IF AUTO_TRADE /\ bid - trade.entry >= TAKE_PROFIT_CENTS
                      THEN Append(orders, Order("sell", trade.side, bid, ok, CONTRACTS))
                      ELSE orders
    /\ ended' = "expired"
    /\ fpc' = "for"
    /\ UNCHANGED <<traded, scanned, trade, bids>>
    /\ since_scan' = Max(since_scan + TICK_SECS, trade.close_in)
    /\ UNCHANGED otherThanTR
MonitorExpired ==
    /\ fpc = "monitor"
    /\ \E bid \in FFBids : tick' = Tick("over", bid)
    /\ ended' = "expired"
    /\ fpc' = "for"
    /\ UNCHANGED <<traded, scanned, trade, bids, orders>>
    /\ since_scan' = Max(since_scan + TICK_SECS, trade.close_in)
    /\ UNCHANGED otherThanTR

(* pnl = bid - entry and the two tests of the loop *)
pnl(bid, entry) == bid - entry
TakeProfit(p) == p >= TAKE_PROFIT_CENTS
StopLossLoose(p) == p < -STOP_LOSS_CENTS
StopLoss(p) == p <= -STOP_LOSS_CENTS

(* loss = entry - bid *)
stop_loss_negated(entry, bid) == bid - entry
stop_loss(entry, bid) == entry - bid

(* Monitor loop, take profit: the sell order is placed in live mode, its *)
(* result is not looked at, and trade_market returns True.               *)
MonitorTakeProfit ==
    /\ fpc = "monitor"
    /\ \E bid \in FFBids, ok \in BOOLEAN :
         /\ TakeProfit(pnl(bid, trade.entry))
         /\ bids' = Append(bids, bid)
         /\ tick' = Tick("left", bid)
         /\ orders' = IF AUTO_TRADE
                      THEN Append(orders, Order("sell", trade.side, bid, ok, CONTRACTS))
                      ELSE orders
    /\ ended' = "take_profit"
    /\ fpc' = "for"
    /\ UNCHANGED <<traded, scanned, trade>>
    /\ since_scan' = since_scan + TICK_SECS
    /\ UNCHANGED otherThanTR

(* Monitor loop, stop loss: the loss is booked, the sell order placed in *)
(* live mode, its result is not looked at, and the loop ends.            *)
MonitorStopLoss ==
    /\ fpc = "monitor"
    /\ \E bid \in FFBids, ok \in BOOLEAN :
         /\ ~TakeProfit(pnl(bid, trade.entry))
         /\ StopLoss(pnl(bid, trade.entry))
         /\ bids' = Append(bids, bid)
         /\ tick' = Tick("left", bid)
         /\ trade' = [trade EXCEPT
                        !.total_loss = @ + stop_loss(trade.entry, bid),
                        !.flips = @ + 1]
         /\ orders' = IF AUTO_TRADE
                      THEN Append(orders, Order("sell", trade.side, bid, ok, CONTRACTS))
                      ELSE orders
    /\ ended' = "stop"
    /\ fpc' = "for"
    /\ UNCHANGED <<traded, scanned>>
    /\ since_scan' = since_scan + TICK_SECS
    /\ UNCHANGED otherThanTR

(* Monitor loop: neither test fires and the loop sleeps again. *)
MonitorHold ==
    /\ fpc = "monitor"
    /\ Len(bids) < MaxTicks
    /\ \E bid \in FFBids :
         /\ ~TakeProfit(pnl(bid, trade.entry))
         /\ ~StopLoss(pnl(bid, trade.entry))
         /\ bids' = Append(bids, bid)
         /\ tick' = Tick("left", bid)
    /\ UNCHANGED <<fpc, traded, scanned, trade, orders, ended>>
    /\ since_scan' = since_scan + TICK_SECS
    /\ UNCHANGED otherThanTR

(* run(): the list is exhausted; the traded set is cleared when it has *)
(* grown past its limit, and the loop sleeps.                          *)
ForDone ==
    /\ fpc = "for"
    /\ traded' = IF Cardinality(traded) > TRADED_LIMIT THEN {} ELSE traded
    /\ scanned' = {}
    /\ fpc' = "scan"
    /\ UNCHANGED <<trade, bids, orders, ended>>
    /\ tick' = NoTick
    /\ UNCHANGED since_scan
    /\ UNCHANGED otherThanTR

(* profit_bot.py is another process: its variables rest. *)
IdlePB ==
    /\ pc = "startup" /\ positions = EmptyMap /\ positionsNone = FALSE
    /\ store = EmptyMap /\ perf = [arb_trades |-> 0, late_trades |-> 0]
    /\ broker = [t \in Tickers |-> 0] /\ reconciliation_counter = 0
    /\ balance = 0 /\ markets = {} /\ settled = [t \in Tickers |-> FALSE]
    /\ diskOk = TRUE /\ write_raised = FALSE
    /\ openEntries = [t \in Tickers |-> 0]
    /\ quiet = FALSE /\ ev = NoEvent

InitFF ==
    /\ AUTO_TRADE \in BOOLEAN
    /\ IdlePB
    /\ IdleTR
    /\ IdleMA
    /\ IdleCW
    /\ IdleSZ
    /\ IdleBS
    /\ IdleKS

NextFF ==
    \/ ScanMarkets
    \/ ForSkip
    \/ TradeMarketNoEntry
    \/ TradeMarketEntryFailed
    \/ TradeMarketEnter
    \/ MonitorFetchFails
    \/ MonitorExpired
    \/ MonitorTakeProfit
    \/ MonitorStopLoss
    \/ MonitorHold
    \/ ForDone

SpecFF == InitFF /\ [][NextFF]_vars

(* The process keeps running: time.sleep returns and every request has *)
(* a timeout, so a step that can be taken is taken.                    *)
SpecFFLive == SpecFF /\ WF_vars(NextFF)

---------------------------------------------------------------------------
(* Properties of flipper_fixed.py *)

(* The monitor loop evaluated a bid in this step, and which. *)
TickEvaluated == fpc = "monitor" /\ Len(bids') = Len(bids) + 1
TickBid == bids'[Len(bids')]

(* The exit of the trade is confirmed: the last order is a sell that the *)
(* exchange accepted (in paper mode the exit is the simulated one).      *)
ExitConfirmed ==
    /\ ended \in {"take_profit", "stop"}
    /\ AUTO_TRADE => /\ orders # <<>>
                     /\ orders[Len(orders)].action = "sell"
                     /\ orders[Len(orders)].ok

(* C2: a position bought on the exchange is never closed (its monitor    *)
(* loop ended) without a confirmed exit fill or the settlement of its    *)
(* market at close; a failed market fetch during monitoring does not     *)
(* close it.                                                             *)
C2_ClosedOnlyByFillOrSettlement ==
    (AUTO_TRADE /\ ended \notin {"none", "open"})
       => (ExitConfirmed \/ ended = "expired")

(* C3: when the sell order of a take-profit or stop exit is refused, the *)
(* position stays held and tracked: the monitor loop goes on with the    *)
(* same trade and evaluates the next tick.                               *)
C3_FailedExitKeepsHolding ==
    [][ ( /\ TickEvaluated
          /\ Len(orders') = Len(orders) + 1
          /\ orders'[Len(orders')].action = "sell"
          /\ ~orders'[Len(orders')].ok )
        => (fpc' = "monitor" /\ ended' = "open" /\ trade' = trade) ]_vars

(* C8: at the first tick whose pnl = bid - entry is at or below          *)
(* -STOP_LOSS_CENTS the position is sold on its side at that bid (one    *)
(* sell order in live mode, none in paper mode), no buy is placed on the *)
(* other side, and the monitor loop ends with the stop.                  *)
C8_StopSellsWithoutReversal ==
    [][ (TickEvaluated /\ TickBid - trade.entry <= -STOP_LOSS_CENTS)
        => /\ \A i \in 1..Len(bids) : bids[i] - trade.entry > -STOP_LOSS_CENTS
           /\ AUTO_TRADE =>
                /\ Len(orders') = Len(orders) + 1
                /\ SubSeq(orders', 1, Len(orders)) = orders
                /\ orders'[Len(orders')].action = "sell"
                /\ orders'[Len(orders')].side = trade.side
                /\ orders'[Len(orders')].price = TickBid
           /\ ~AUTO_TRADE => orders' = orders
           /\ fpc' # "monitor" /\ ended' = "stop"
           /\ trade'.ticker = trade.ticker /\ trade'.side = trade.side ]_vars

(* A stop in live mode: the monitor loop ended by one sell at the bid. *)
C8_Witness ==
    /\ AUTO_TRADE /\ ended = "stop" /\ fpc # "monitor"
    /\ Len(bids) >= 2
    /\ Len(orders) = 2 /\ orders[2].action = "sell"
    /\ orders[2].price = bids[Len(bids)] /\ orders[2].side = trade.side

---------------------------------------------------------------------------
(* flipper.py: constants, should_enter and the bid a tick works with *)

SWING_TARGET == 10
MIN_ENTRY_PRICE == 20
FLIPPER_MAX_ENTRY_PRICE == 80
RISK_THRESHOLD == 67
MAX_SPREAD == 4
NO_SPREAD == 999
WEIRD_BID_LOW == 5
WEIRD_BID_HIGH == 99
FLIPPER_TRADED_LIMIT == 200

Decided(m) ==
    m.yes_ask >= DECIDED_ASK \/ m.no_ask >= DECIDED_ASK \/ m.yes_ask = 0 \/ m.no_ask = 0

WideSpread(m) ==
    LET yes_spread == IF m.yes_ask # 0 /\ m.yes_bid # 0
                      THEN m.yes_ask - m.yes_bid ELSE NO_SPREAD
        no_spread == IF m.no_ask # 0 /\ m.no_bid # 0
                     THEN m.no_ask - m.no_bid ELSE NO_SPREAD
    IN  yes_spread > MAX_SPREAD \/ no_spread > MAX_SPREAD

(* should_enter: <<side, entry_price, signal>> *)
should_enter(m) ==
    IF Decided(m) THEN <<"none", 0, "decided">>
    ELSE IF WideSpread(m) THEN <<"none", 0, "wide_spread">>
    ELSE IF m.yes_ask <= FLIPPER_MAX_ENTRY_PRICE /\ m.yes_ask >= MIN_ENTRY_PRICE
    THEN <<"yes", m.yes_ask, "dip_buy">>
    ELSE IF m.no_ask <= FLIPPER_MAX_ENTRY_PRICE /\ m.no_ask >= MIN_ENTRY_PRICE
    THEN <<"no", m.no_ask, "dip_buy">>
    ELSE <<"none", 0, "no_entry">>

(* run(): the tests of the for loop that skip a market of the list. *)
RunSkips(m) ==
    \/ Decided(m)
    \/ WideSpread(m)
    \/ m.yes_ask > FLIPPER_MAX_ENTRY_PRICE /\ m.no_ask > FLIPPER_MAX_ENTRY_PRICE
    \/ m.yes_ask < MIN_ENTRY_PRICE /\ m.no_ask < MIN_ENTRY_PRICE

(* The markets run() collects. *)
FLMarkets ==
    {[yes_ask |-> 60, yes_bid |-> 58, no_ask |-> 42, no_bid |-> 40],
     [yes_ask |-> 85, yes_bid |-> 83, no_ask |-> 17, no_bid |-> 15],
     [yes_ask |-> 82, yes_bid |-> 80, no_ask |-> 20, no_bid |-> 18],
     [yes_ask |-> 60, yes_bid |-> 50, no_ask |-> 50, no_bid |-> 40],
     [yes_ask |-> 96, yes_bid |-> 94, no_ask |-> 6, no_bid |-> 4]}

(* Bids refresh_market() reports for the held side, and the price of the *)
(* first level get_orderbook() lists for it (0: the side is empty).      *)
FLBids == {3, 58, 60, 62, 65, 68, 70, 71}
FLBookPrices == {0, 4, 72}

(* current_bid: the market's bid, or the order book's first level when *)
(* the market's bid is below 5 or above 99.                            *)
current_bid(market_bid, book_price) ==
    IF market_bid < WEIRD_BID_LOW \/ market_bid > WEIRD_BID_HIGH
    THEN IF book_price > WEIRD_BID_LOW THEN book_price ELSE 0
    ELSE market_bid

---------------------------------------------------------------------------
(* flipper.py: run() and trade_market() *)

(* run(): the priority and sweep markets are collected; the list is *)
(* drawn market by market as the for loop reaches them.             *)
FLScan ==
    /\ fpc = "scan"
    /\ fpc' = "for"
    /\ scanned' = {}
    /\ UNCHANGED <<traded, trade, bids, orders, ended>>
    /\ tick' = NoTick
    /\ UNCHANGED since_scan
    /\ UNCHANGED otherThanTR

(* run(): the market is passed over by one of the loop's tests. *)
FLForSkip ==
    /\ fpc = "for"
    /\ \E t \in Tickers \ scanned, m \in FLMarkets, slBad \in BOOLEAN :
         /\ slBad \/ t \in traded \/ RunSkips(m)
         /\ scanned' = scanned \cup {t}
    /\ UNCHANGED <<fpc, traded, trade, bids, orders, ended>>
    /\ tick' = NoTick
    /\ UNCHANGED since_scan
    /\ UNCHANGED otherThanTR

(* trade_market returns before an entry: should_enter finds no side or *)
(* less than MIN_SECS_LEFT remain.                                     *)
FLNoEntry ==
    /\ fpc = "for"
    /\ \E t \in (Tickers \ scanned) \ traded, m \in FLMarkets, tooClose \in BOOLEAN :
         /\ ~RunSkips(m)
         /\ should_enter(m)[1] = "none" \/ tooClose
         /\ traded' = traded \cup {t}
         /\ scanned' = scanned \cup {t}
    /\ UNCHANGED <<fpc, trade, bids, orders, ended>>
    /\ tick' = NoTick
    /\ UNCHANGED since_scan
    /\ UNCHANGED otherThanTR

(* trade_market in live mode: the entry order is refused and it returns. *)
FLEntryFailed ==
    /\ fpc = "for"
    /\ AUTO_TRADE
    /\ \E t \in (Tickers \ scanned) \ traded, m \in FLMarkets :
         LET pick == should_enter(m) IN
         /\ ~RunSkips(m) /\ pick[1] # "none"
         /\ traded' = traded \cup {t}
         /\ scanned' = scanned \cup {t}
         /\ trade' = NoTrade
         /\ bids' = <<>>
         /\ orders' = <<Order("buy", pick[1], pick[2], FALSE,
                             get_contracts(BALANCE_CENTS, pick[2]))>>
         /\ ended' = "none"
    /\ UNCHANGED fpc
    /\ tick' = NoTick
    /\ UNCHANGED since_scan
    /\ UNCHANGED otherThanTR

(* trade_market enters and the monitor loop starts; balance_ok tells *)
(* whether its get_balance() returned a balance or None.            *)
FLEnter ==
    /\ fpc = "for"
    /\ \E t \in (Tickers \ scanned) \ traded, m \in FLMarkets,
          balance_ok \in BOOLEAN :
         LET pick == should_enter(m) IN
         /\ ~RunSkips(m) /\ pick[1] # "none"
         /\ traded' = traded \cup {t}
         /\ scanned' = scanned \cup {t}
         /\ trade' = [ticker |-> t, side |-> pick[1], entry |-> pick[2],
                      total_loss |-> 0, flips |-> 0, balance_ok |-> balance_ok,
                      contracts |-> get_contracts(IF balance_ok THEN BALANCE_CENTS
                                                                    ELSE 0, pick[2])]
         /\ bids' = <<>>
         /\ orders' = IF AUTO_TRADE THEN <<Order("buy", pick[1], pick[2], TRUE, trade'.contracts)>>
                                    ELSE <<>>
         /\ ended' = "open"
    /\ fpc' = "monitor"
    /\ tick' = NoTick
    /\ UNCHANGED since_scan
    /\ UNCHANGED otherThanTR

(* Monitor loop: refresh_market or get_orderbook comes back empty. *)
FLFetchFails ==
    /\ fpc = "monitor"
    /\ tick' = NoTick
    /\ ended' = "fetch_failed"
    /\ fpc' = "for"
    /\ UNCHANGED <<traded, scanned, trade, bids, orders>>
    /\ UNCHANGED since_scan
    /\ UNCHANGED otherThanTR

(* Monitor loop: the market's close time has passed. *)
FLExpired ==
    /\ fpc = "monitor"
    /\ \E bid \in FLBids : tick' = Tick("over", bid)
    /\ ended' = "expired"
    /\ fpc' = "for"
    /\ UNCHANGED <<traded, scanned, trade, bids, orders>>
    /\ UNCHANGED since_scan
    /\ UNCHANGED otherThanTR

(* Monitor loop: no usable bid ("if current_bid <= 0: continue"). *)
FLNoBid ==
    /\ fpc = "monitor"
    /\ Len(bids) < MaxTicks
    /\ \E market_bid \in FLBids, book_price \in FLBookPrices :
         /\ current_bid(market_bid, book_price) <= 0
         /\ bids' = Append(bids, current_bid(market_bid, book_price))
         /\ tick' = Tick("left", current_bid(market_bid, book_price))
    /\ UNCHANGED <<fpc, traded, scanned, trade, orders, ended>>
    /\ UNCHANGED since_scan
    /\ UNCHANGED otherThanTR

(* The exit tests of the loop, in the order the loop makes them. *)
TargetHitStrict(p) == p > SWING_TARGET
TargetHit(p) == p >= SWING_TARGET
AboveThreshold(bid, p) == bid > RISK_THRESHOLD /\ p > 0

(* Monitor loop, 1: take profit; the sell's result is not looked at. *)
FLTakeProfit ==
    /\ fpc = "monitor"
    /\ \E market_bid \in FLBids, book_price \in FLBookPrices, ok \in BOOLEAN :
         LET bid == current_bid(market_bid, book_price) IN
         /\ bid > 0
         /\ TargetHit(pnl(bid, trade.entry))
         /\ bids' = Append(bids, bid)
         /\ tick' = Tick("left", bid)
         /\ orders' = IF AUTO_TRADE
                      THEN Append(orders, Order("sell", trade.side, bid, ok, trade.contracts))
                      ELSE orders
    /\ ended' = "take_profit"
    /\ fpc' = "for"
    /\ UNCHANGED <<traded, scanned, trade>>
    /\ UNCHANGED since_scan
    /\ UNCHANGED otherThanTR

(* Monitor loop, 2: less than a minute left; sell when in profit, hold *)
(* to settlement otherwise; the loop ends either way.                  *)
FLNearExpiry ==
    /\ fpc = "monitor"
    /\ \E market_bid \in FLBids, book_price \in FLBookPrices, ok \in BOOLEAN :
         LET bid == current_bid(market_bid, book_price) IN
         /\ bid > 0
         /\ ~TargetHit(pnl(bid, trade.entry))
         /\ bids' = Append(bids, bid)
         /\ tick' = Tick("left", bid)
         /\ orders' = IF AUTO_TRADE /\ pnl(bid, trade.entry) > 0
                      THEN Append(orders, Order("sell", trade.side, bid, ok, trade.contracts))
                      ELSE orders
         /\ ended' = IF pnl(bid, trade.entry) > 0 THEN "near_expiry_sold"
                                                  ELSE "near_expiry_held"
    /\ fpc' = "for"
    /\ UNCHANGED <<traded, scanned, trade>>
    /\ UNCHANGED since_scan
    /\ UNCHANGED otherThanTR

(* The same exit with the loop's break left out: the order is sent and *)
(* the loop goes on monitoring the position.                            *)
FLAboveThresholdStays ==
    /\ fpc = "monitor"
    /\ \E market_bid \in FLBids, book_price \in FLBookPrices, ok \in BOOLEAN :
         LET bid == current_bid(market_bid, book_price) IN
         /\ bid > 0
         /\ ~TargetHit(pnl(bid, trade.entry))
         /\ AboveThreshold(bid, pnl(bid, trade.entry))
         /\ bids' = Append(bids, bid)
         /\ tick' = Tick("left", bid)
         /\ orders' = IF AUTO_TRADE
                      THEN Append(orders, Order("sell", trade.side, bid, ok,
                                                trade.contracts))
                      ELSE orders
    /\ ended' = "above_threshold"
    /\ UNCHANGED fpc
    /\ UNCHANGED <<traded, scanned, trade>>
    /\ UNCHANGED since_scan
    /\ UNCHANGED otherThanTR

(* Monitor loop, 3: the bid is above RISK_THRESHOLD and in profit. *)
FLAboveThreshold ==
    /\ fpc = "monitor"
    /\ \E market_bid \in FLBids, book_price \in FLBookPrices, ok \in BOOLEAN :
         LET bid == current_bid(market_bid, book_price) IN
         /\ bid > 0
         /\ ~TargetHit(pnl(bid, trade.entry))
         /\ AboveThreshold(bid, pnl(bid, trade.entry))
         /\ bids' = Append(bids, bid)
         /\ tick' = Tick("left", bid)
         /\ orders' = IF AUTO_TRADE
                      THEN Append(orders, Order("sell", trade.side, bid, ok, trade.contracts))
                      ELSE orders
    /\ ended' = "above_threshold"
    /\ fpc' = "for"
    /\ UNCHANGED <<traded, scanned, trade>>
    /\ UNCHANGED since_scan
    /\ UNCHANGED otherThanTR

(* Monitor loop, 4: no exit test fires; the position is held. *)
FLHold ==
    /\ fpc = "monitor"
    /\ Len(bids) < MaxTicks
    /\ \E market_bid \in FLBids, book_price \in FLBookPrices :
         LET bid == current_bid(market_bid, book_price) IN
         /\ bid > 0
         /\ ~TargetHit(pnl(bid, trade.entry))
         /\ ~AboveThreshold(bid, pnl(bid, trade.entry))
         /\ bids' = Append(bids, bid)
         /\ tick' = Tick("left", bid)
    /\ UNCHANGED <<fpc, traded, scanned, trade, orders, ended>>
    /\ UNCHANGED since_scan
    /\ UNCHANGED otherThanTR

(* run(): the list is exhausted; the traded set is cleared past its *)
(* limit, and the loop sleeps.                                      *)
FLForDone ==
    /\ fpc = "for"
    /\ traded' = IF Cardinality(traded) > FLIPPER_TRADED_LIMIT THEN {} ELSE traded
    /\ scanned' = {}
    /\ fpc' = "scan"
    /\ UNCHANGED <<trade, bids, orders, ended>>
    /\ tick' = NoTick
    /\ UNCHANGED since_scan
    /\ UNCHANGED otherThanTR

InitFL ==
    /\ AUTO_TRADE \in BOOLEAN
    /\ IdlePB
    /\ IdleTR
    /\ IdleMA
    /\ IdleCW
    /\ IdleSZ
    /\ IdleBS
    /\ IdleKS

NextFL ==
    \/ FLScan
    \/ FLForSkip
    \/ FLNoEntry
    \/ FLEntryFailed
    \/ FLEnter
    \/ FLFetchFails
    \/ FLExpired
    \/ FLNoBid
    \/ FLTakeProfit
    \/ FLNearExpiry
    \/ FLAboveThreshold
    \/ FLHold
    \/ FLForDone

SpecFL == InitFL /\ [][NextFL]_vars

---------------------------------------------------------------------------
(* Properties of flipper.py *)

(* The monitor loop worked with a bid above 0 in this step. *)
FLTickEvaluated ==
    fpc = "monitor" /\ Len(bids') = Len(bids) + 1 /\ bids'[Len(bids')] > 0

(* C9: the take-profit sell is issued at the first tick whose bid is at *)
(* least SWING_TARGET above the entry: no earlier tick of the position  *)
(* reached the target and no sell was issued before; in live mode the   *)
(* step places exactly one sell, on the held side at that bid (none in  *)
(* paper mode), and the monitor loop ends with the take profit.         *)
C9_TakeProfitAtFirstTargetTick ==
    [][ (FLTickEvaluated /\ TickBid - trade.entry >= SWING_TARGET)
        => /\ \A i \in 1..Len(bids) : bids[i] - trade.entry < SWING_TARGET
           /\ \A i \in 1..Len(orders) : orders[i].action # "sell"
           /\ AUTO_TRADE =>
                /\ Len(orders') = Len(orders) + 1
                /\ SubSeq(orders', 1, Len(orders)) = orders
                /\ orders'[Len(orders')].action = "sell"
                /\ orders'[Len(orders')].side = trade.side
                /\ orders'[Len(orders')].price = TickBid
           /\ ~AUTO_TRADE => orders' = orders
           /\ fpc' # "monitor" /\ ended' = "take_profit" ]_vars

(* Entry 60 on the yes side, bids 60, 62, 65, 71: the one sell is at 71. *)
C9_Witness ==
    /\ AUTO_TRADE /\ trade.entry = 60 /\ trade.side = "yes"
    /\ bids = <<60, 62, 65, 71>>
    /\ ended = "take_profit"
    /\ Len(orders) = 2 /\ orders[1].action = "buy"
    /\ orders[2].action = "sell" /\ orders[2].price = 71

---------------------------------------------------------------------------
(* goobclaw_flipper_v3_inverse.py: run() and trade_market().  Its code is *)
(* flipper.py's but for should_enter and the threshold tests of the loop. *)

INVERSE_RISK_THRESHOLD == 33
CUT_LOSS_YES_BID == 67
CUT_LOSS_CENTS == 5

(* should_enter: the NO side is preferred. *)
inverse_should_enter(m) ==
    IF Decided(m) THEN <<"none", 0, "decided">>
    ELSE IF WideSpread(m) THEN <<"none", 0, "wide_spread">>
    ELSE IF m.no_ask <= FLIPPER_MAX_ENTRY_PRICE /\ m.no_ask >= MIN_ENTRY_PRICE
    THEN <<"no", m.no_ask, "fade_rip_no">>
    ELSE IF m.yes_ask <= FLIPPER_MAX_ENTRY_PRICE /\ m.yes_ask >= MIN_ENTRY_PRICE
    THEN <<"yes", m.yes_ask, "fade_rip_yes">>
    ELSE <<"none", 0, "no_entry">>

(* The markets run() collects, the bids refresh_market() reports for the *)
(* held side and, for a NO position, the market's yes_bid.                *)
FIMarkets ==
    {[yes_ask |-> 60, yes_bid |-> 58, no_ask |-> 42, no_bid |-> 40],
     [yes_ask |-> 20, yes_bid |-> 18, no_ask |-> 82, no_bid |-> 80],
     [yes_ask |-> 85, yes_bid |-> 83, no_ask |-> 17, no_bid |-> 15],
     [yes_ask |-> 60, yes_bid |-> 50, no_ask |-> 50, no_bid |-> 40]}
FIBids == {3, 18, 25, 36, 40, 45, 52}
FIYesBids == {30, 62, 75}

FIScan == FLScan

FIForSkip ==
    /\ fpc = "for"
    /\ \E t \in Tickers \ scanned, m \in FIMarkets, slBad \in BOOLEAN :
         /\ slBad \/ t \in traded \/ RunSkips(m)
         /\ scanned' = scanned \cup {t}
    /\ tick' = NoTick
    /\ UNCHANGED <<fpc, traded, trade, bids, orders, ended>>
    /\ UNCHANGED since_scan
    /\ UNCHANGED otherThanTR

FINoEntry ==
    /\ fpc = "for"
    /\ \E t \in (Tickers \ scanned) \ traded, m \in FIMarkets, tooClose \in BOOLEAN :
         /\ ~RunSkips(m)
         /\ inverse_should_enter(m)[1] = "none" \/ tooClose
         /\ traded' = traded \cup {t}
         /\ scanned' = scanned \cup {t}
    /\ tick' = NoTick
    /\ UNCHANGED <<fpc, trade, bids, orders, ended>>
    /\ UNCHANGED since_scan
    /\ UNCHANGED otherThanTR

FIEntryFailed ==
    /\ fpc = "for"
    /\ AUTO_TRADE
    /\ \E t \in (Tickers \ scanned) \ traded, m \in FIMarkets :
         LET pick == inverse_should_enter(m) IN
         /\ ~RunSkips(m) /\ pick[1] # "none"
         /\ traded' = traded \cup {t}
         /\ scanned' = scanned \cup {t}
         /\ trade' = NoTrade
         /\ bids' = <<>>
         /\ orders' = <<Order("buy", pick[1], pick[2], FALSE,
                             get_contracts(BALANCE_CENTS, pick[2]))>>
         /\ ended' = "none"
    /\ tick' = NoTick
    /\ UNCHANGED fpc
    /\ UNCHANGED since_scan
    /\ UNCHANGED otherThanTR

FIEnter ==
    /\ fpc = "for"
    /\ \E t \in (Tickers \ scanned) \ traded, m \in FIMarkets :
         LET pick == inverse_should_enter(m) IN
         /\ ~RunSkips(m) /\ pick[1] # "none"
         /\ traded' = traded \cup {t}
         /\ scanned' = scanned \cup {t}
         /\ trade' = [ticker |-> t, side |-> pick[1], entry |-> pick[2],
                      total_loss |-> 0, flips |-> 0,
                      contracts |-> get_contracts(BALANCE_CENTS, pick[2])]
         /\ bids' = <<>>
         /\ orders' = IF AUTO_TRADE THEN <<Order("buy", pick[1], pick[2], TRUE, trade'.contracts)>>
                                    ELSE <<>>
         /\ ended' = "open"
    /\ tick' = NoTick
    /\ fpc' = "monitor"
    /\ UNCHANGED since_scan
    /\ UNCHANGED otherThanTR

FIFetchFails == FLFetchFails

FIExpired ==
    /\ fpc = "monitor"
    /\ \E bid \in FIBids : tick' = Tick("over", bid)
    /\ ended' = "expired"
    /\ fpc' = "for"
    /\ UNCHANGED <<traded, scanned, trade, bids, orders>>
    /\ UNCHANGED since_scan
    /\ UNCHANGED otherThanTR

FINoBid ==
    /\ fpc = "monitor"
    /\ Len(bids) < MaxTicks
    /\ \E market_bid \in FIBids, book_price \in FLBookPrices :
         /\ current_bid(market_bid, book_price) <= 0
         /\ bids' = Append(bids, current_bid(market_bid, book_price))
         /\ tick' = Tick("left", current_bid(market_bid, book_price))
    /\ UNCHANGED <<fpc, traded, scanned, trade, orders, ended>>
    /\ UNCHANGED since_scan
    /\ UNCHANGED otherThanTR

(* The threshold exit (3) and the loss cut (4) of the inverse loop; *)
(* yes_bid is the market's yes_bid, read for a NO position.         *)
InverseThresholdExit(side, bid, yes_bid, p) ==
    IF side = "no" THEN yes_bid < INVERSE_RISK_THRESHOLD /\ p > 0
                   ELSE bid < INVERSE_RISK_THRESHOLD /\ p > 0
InverseCutLoss(side, yes_bid, p) ==
    side = "no" /\ yes_bid < CUT_LOSS_YES_BID /\ p < -CUT_LOSS_CENTS

(* Inverse loop, 1: take profit. *)
FITakeProfit ==
    /\ fpc = "monitor"
    /\ \E market_bid \in FIBids, book_price \in FLBookPrices, yes_bid \in FIYesBids,
          ok \in BOOLEAN :
         LET bid == current_bid(market_bid, book_price)
             p == pnl(bid, trade.entry)
         IN
         /\ bid > 0
         /\ TargetHit(p)
         /\ bids' = Append(bids, bid)
         /\ tick' = Tick("left", bid)
         /\ orders' = IF AUTO_TRADE
                      THEN Append(orders, Order("sell", trade.side, bid, ok, trade.contracts))
                      ELSE orders
         /\ ended' = "take_profit"
    /\ fpc' = "for"
    /\ UNCHANGED <<traded, scanned, trade>>
    /\ UNCHANGED since_scan
    /\ UNCHANGED otherThanTR

(* Inverse loop, 2: less than a minute left; sell when in profit. *)
FINearExpiry ==
    /\ fpc = "monitor"
    /\ \E market_bid \in FIBids, book_price \in FLBookPrices, yes_bid \in FIYesBids,
          ok \in BOOLEAN :
         LET bid == current_bid(market_bid, book_price)
             p == pnl(bid, trade.entry)
         IN
         /\ bid > 0
         /\ ~TargetHit(p)
         /\ bids' = Append(bids, bid)
         /\ tick' = Tick("left", bid)
         /\ orders' = IF AUTO_TRADE /\ p > 0
                      THEN Append(orders, Order("sell", trade.side, bid, ok, trade.contracts))
                      ELSE orders
         /\ ended' = IF p > 0 THEN "near_expiry_sold" ELSE "near_expiry_held"
    /\ fpc' = "for"
    /\ UNCHANGED <<traded, scanned, trade>>
    /\ UNCHANGED since_scan
    /\ UNCHANGED otherThanTR

(* Inverse loop, 3: the threshold exit, in profit. *)
FIThresholdExit ==
    /\ fpc = "monitor"
    /\ \E market_bid \in FIBids, book_price \in FLBookPrices, yes_bid \in FIYesBids,
          ok \in BOOLEAN :
         LET bid == current_bid(market_bid, book_price)
             p == pnl(bid, trade.entry)
         IN
         /\ bid > 0
         /\ ~TargetHit(p)
         /\ InverseThresholdExit(trade.side, bid, yes_bid, p)
         /\ bids' = Append(bids, bid)
         /\ tick' = Tick("left", bid)
         /\ orders' = IF AUTO_TRADE
                      THEN Append(orders, Order("sell", trade.side, bid, ok, trade.contracts))
                      ELSE orders
         /\ ended' = "threshold"
    /\ fpc' = "for"
    /\ UNCHANGED <<traded, scanned, trade>>
    /\ UNCHANGED since_scan
    /\ UNCHANGED otherThanTR

(* Inverse loop, 4: a NO position losing more than 5 is sold while yes_bid < 67. *)
FICutLoss ==
    /\ fpc = "monitor"
    /\ \E market_bid \in FIBids, book_price \in FLBookPrices, yes_bid \in FIYesBids,
          ok \in BOOLEAN :
         LET bid == current_bid(market_bid, book_price)
             p == pnl(bid, trade.entry)
         IN
         /\ bid > 0
         /\ ~TargetHit(p)
         /\ ~InverseThresholdExit(trade.side, bid, yes_bid, p)
         /\ InverseCutLoss(trade.side, yes_bid, p)
         /\ bids' = Append(bids, bid)
         /\ tick' = Tick("left", bid)
         /\ orders' = IF AUTO_TRADE
                      THEN Append(orders, Order("sell", trade.side, bid, ok, trade.contracts))
                      ELSE orders
         /\ ended' = "cut_loss"
    /\ fpc' = "for"
    /\ UNCHANGED <<traded, scanned, trade>>
    /\ UNCHANGED since_scan
    /\ UNCHANGED otherThanTR

(* Inverse loop: no exit test fires; the position is held. *)
FIHold ==
    /\ fpc = "monitor"
    /\ Len(bids) < MaxTicks
    /\ \E market_bid \in FIBids, book_price \in FLBookPrices, yes_bid \in FIYesBids :
         LET bid == current_bid(market_bid, book_price)
             p == pnl(bid, trade.entry)
         IN
         /\ bid > 0
         /\ ~TargetHit(p)
         /\ ~InverseThresholdExit(trade.side, bid, yes_bid, p)
         /\ ~InverseCutLoss(trade.side, yes_bid, p)
         /\ bids' = Append(bids, bid)
         /\ tick' = Tick("left", bid)
    /\ UNCHANGED <<fpc, traded, scanned, trade, orders, ended>>
    /\ UNCHANGED since_scan
    /\ UNCHANGED otherThanTR

FIForDone == FLForDone

InitFI ==
    /\ AUTO_TRADE \in BOOLEAN
    /\ IdlePB
    /\ IdleTR
    /\ IdleMA
    /\ IdleCW
    /\ IdleSZ
    /\ IdleBS
    /\ IdleKS

NextFI ==
    \/ FIScan
    \/ FIForSkip
    \/ FINoEntry
    \/ FIEntryFailed
    \/ FIEnter
    \/ FIFetchFails
    \/ FIExpired
    \/ FINoBid
    \/ FITakeProfit
    \/ FINearExpiry
    \/ FIThresholdExit
    \/ FICutLoss
    \/ FIHold
    \/ FIForDone

SpecFI == InitFI /\ [][NextFI]_vars

---------------------------------------------------------------------------
(* Properties of the swing variants (flipper.py and its inverse) *)

(* C12: no sell is placed at a loss: every step of the monitor loop that *)
(* places a sell order is a tick whose bid is above the entry, and a     *)
(* tick whose bid is at or below the entry places no order.              *)
C12_NoSellAtALoss ==
    [][ (fpc = "monitor" /\ Len(orders') = Len(orders) + 1
         /\ orders'[Len(orders')].action = "sell")
        => (tick'.secs = "left" /\ tick'.bid - trade.entry > 0) ]_vars

---------------------------------------------------------------------------
(* multi_account_arb.py: find_arbs, execute_dual_arb and run() *)

ARB_TOTAL_LIMIT == 99
LAST_ARBS_LIMIT == 50
DUAL_PAIRS == 1

(* The markets get_all_markets() returns, and the orders it lists the *)
(* tickers in.                                                        *)
MAMarkets == {[yes_ask |-> 47, no_ask |-> 47], [yes_ask |-> 45, no_ask |-> 45],
              [yes_ask |-> 51, no_ask |-> 51], [yes_ask |-> 0, no_ask |-> 40]}
MAOrders == {<<"T1", "T2">>, <<"T2", "T1">>}

(* find_arbs: the market is listed as an arbitrage. *)
find_arbs(m) ==
    /\ m.yes_ask # 0 /\ m.no_ask # 0
    /\ m.yes_ask + m.no_ask < ARB_TOTAL_LIMIT

(* find_arbs: the entry appended for a market. *)
Arb(t, m) ==
    [ticker |-> t, yes_ask |-> m.yes_ask, no_ask |-> m.no_ask,
     profit |-> 100 - (m.yes_ask + m.no_ask)]

(* find_arbs: the arbs list before it is sorted, in the markets' order. *)
RECURSIVE arbs_found(_, _)
arbs_found(order, quote) ==
    IF order = <<>> THEN <<>>
    ELSE (IF find_arbs(quote[Head(order)])
          THEN <<Arb(Head(order), quote[Head(order)])>> ELSE <<>>)
         \o arbs_found(Tail(order), quote)

(* sorted(): an entry goes before the first entry of no higher profit. *)
RECURSIVE InsertByProfit(_, _)
InsertByProfit(a, s) ==
    IF s = <<>> THEN <<a>>
    ELSE IF Head(s).profit <= a.profit THEN <<a>> \o s
    ELSE <<Head(s)>> \o InsertByProfit(a, Tail(s))

(* sorted(): the stable sort by decreasing profit. *)
RECURSIVE sorted_by_profit(_)
sorted_by_profit(list) ==
    IF list = <<>> THEN <<>>
    ELSE InsertByProfit(Head(list), sorted_by_profit(Tail(list)))

(* A plausible slip: the list is returned in the markets' order. *)
sorted_arbs_unsorted(list) == list

(* find_arbs: sorted(arbs, key=lambda x: x["profit"], reverse=True). *)
sorted_arbs(list) == sorted_by_profit(list)

(* run(): the connection test; without account 1 run() returns. *)
MAStart ==
    /\ mpc = "start"
    /\ \E bal1 \in {0, BALANCE_CENTS} :
         mpc' = IF bal1 = 0 THEN "stopped" ELSE "scan"
    /\ UNCHANGED <<last_arbs, arbs, cycle, legs, dual_ret>>
    /\ UNCHANGED otherThanMA

(* run(): arbs = find_arbs(get_all_markets()). *)
MAScan ==
    /\ mpc = "scan"
    /\ mpc' = "arbs"
    /\ \E order \in MAOrders, quote \in [Tickers -> MAMarkets] :
         arbs' = sorted_arbs(arbs_found(order, quote))
    /\ cycle' = <<>>
    /\ UNCHANGED <<last_arbs, legs, dual_ret>>
    /\ UNCHANGED otherThanMA

(* run(): an arbitrage whose ticker is in last_arbs is passed over. *)
MAKnownArb ==
    /\ mpc = "arbs"
    /\ arbs # <<>>
    /\ Head(arbs).ticker \in last_arbs
    /\ arbs' = Tail(arbs)
    /\ UNCHANGED <<mpc, last_arbs, cycle, legs, dual_ret>>
    /\ UNCHANGED otherThanMA

(* execute_dual_arb in paper mode: no order, returns True. *)
MAExecutePaper ==
    /\ mpc = "arbs"
    /\ ~AUTO_TRADE
    /\ arbs # <<>>
    /\ Head(arbs).ticker \notin last_arbs
    /\ LET t == Head(arbs).ticker IN
         /\ dual_ret' = [dual_ret EXCEPT ![t] = "True"]
         /\ last_arbs' = last_arbs \cup {t}
    /\ cycle' = Append(cycle, Head(arbs))
    /\ arbs' = Tail(arbs)
    /\ UNCHANGED <<mpc, legs>>
    /\ UNCHANGED otherThanMA

(* What execute_dual_arb returns for the results of its two orders. *)
dual_result(ok1, ok2) == IF ok1 /\ ok2 THEN "True" ELSE "False"

(* execute_dual_arb in live mode: both orders are placed, whatever the *)
(* first one's result; run() drops the value returned and adds the     *)
(* ticker to last_arbs.                                                *)
MAExecuteLive ==
    /\ mpc = "arbs"
    /\ AUTO_TRADE
    /\ arbs # <<>>
    /\ Head(arbs).ticker \notin last_arbs
    /\ \E ok1 \in BOOLEAN, ok2 \in BOOLEAN :
         LET t == Head(arbs).ticker IN
         /\ legs' = [legs EXCEPT ![t] =
                        [yes |-> @.yes + (IF ok1 THEN DUAL_PAIRS ELSE 0),
                         no |-> @.no + (IF ok2 THEN DUAL_PAIRS ELSE 0)]]
         /\ dual_ret' = [dual_ret EXCEPT ![t] = dual_result(ok1, ok2)]
         /\ last_arbs' = last_arbs \cup {t}
    /\ cycle' = Append(cycle, Head(arbs))
    /\ arbs' = Tail(arbs)
    /\ UNCHANGED mpc
    /\ UNCHANGED otherThanMA

(* run(): the list is exhausted; last_arbs is reset past its limit. *)
MADone ==
    /\ mpc = "arbs"
    /\ arbs = <<>>
    /\ last_arbs' = IF Cardinality(last_arbs) > LAST_ARBS_LIMIT THEN {} ELSE last_arbs
    /\ mpc' = "scan"
    /\ UNCHANGED <<arbs, cycle, legs, dual_ret>>
    /\ UNCHANGED otherThanMA

InitMA ==
    /\ AUTO_TRADE \in BOOLEAN
    /\ IdlePB
    /\ IdleTR
    /\ IdleMA
    /\ IdleCW
    /\ IdleSZ
    /\ IdleBS
    /\ IdleKS

NextMA ==
    \/ MAStart
    \/ MAScan
    \/ MAKnownArb
    \/ MAExecutePaper
    \/ MAExecuteLive
    \/ MADone

SpecMA == InitMA /\ [][NextMA]_vars

---------------------------------------------------------------------------
(* Properties of multi_account_arb.py *)

(* C7: when exactly one leg of a two-leg entry was accepted, the outcome *)
(* is recorded as an unbalanced position: it is neither reported as a    *)
(* plain failure or success nor left without a record.                   *)
C7_OneLegIsUnbalanced ==
    \A t \in Tickers :
       legs[t].yes # legs[t].no => dual_ret[t] = "Unbalanced"

---------------------------------------------------------------------------
(* The shared files under several writers: profit_bot.py and            *)
(* profit_bot_paper.py name the same POSITIONS_FILE and PERFORMANCE_LOG, *)
(* and monitor.py starts profit_bot.py processes.  Each writer runs      *)
(* execute_late_game in dry-run mode; a file read and a file write are   *)
(* one step each.                                                        *)

(* What a writer's steps leave alone of profit_bot.py's variables. *)
pbRest == <<AUTO_TRADE, pc, positions, positionsNone, broker,
            reconciliation_counter, balance, markets, settled, diskOk,
            write_raised,
            openEntries, quiet, ev>>

(* Trades under way: loaded from the ledger and not yet posted. *)
UnderWay == Cardinality({w \in Writers : wpc[w] = "loaded"})

(* perf = load_performance(), for a ticker the writer does not hold. *)
WLoadPerformance(w) ==
    /\ wpc[w] = "idle"
    /\ posted + UnderWay < MaxTrades
    /\ \E t \in Tickers \ DOMAIN wpositions[w] :
         wticker' = [wticker EXCEPT ![w] = t]
    /\ wperf' = [wperf EXCEPT ![w] = perf]
    /\ wpc' = [wpc EXCEPT ![w] = "loaded"]
    /\ UNCHANGED <<wpositions, posted, entered, store, perf>>
    /\ UNCHANGED <<pbRest, trVars, maVars, szVars, bsVars, ksVars>>

(* perf["late_trades"] += 1; save_performance(perf) *)
WSavePerformance(w) ==
    /\ wpc[w] = "loaded"
    /\ wperf' = [wperf EXCEPT ![w].late_trades = @ + 1]
    /\ perf' = wperf'[w]
    /\ posted' = posted + 1
    /\ wpc' = [wpc EXCEPT ![w] = "posted"]
    /\ UNCHANGED <<wticker, wpositions, entered, store>>
    /\ UNCHANGED <<pbRest, trVars, maVars, szVars, bsVars, ksVars>>

(* positions[ticker] = {...}; save_positions(positions) *)
WSavePositions(w) ==
    /\ wpc[w] = "posted"
    /\ wpositions' = [wpositions EXCEPT
                        ![w] = Put(@, wticker[w], LateRecord("yes", 4, 20))]
    /\ store' = wpositions'[w]
    /\ entered' = entered \cup {wticker[w]}
    /\ wticker' = [wticker EXCEPT ![w] = "none"]
    /\ wpc' = [wpc EXCEPT ![w] = "idle"]
    /\ UNCHANGED <<wperf, posted, perf>>
    /\ UNCHANGED <<pbRest, trVars, maVars, szVars, bsVars, ksVars>>

InitCW ==
    /\ AUTO_TRADE = FALSE
    /\ IdlePB
    /\ IdleTR
    /\ IdleMA
    /\ IdleCW
    /\ IdleSZ
    /\ IdleBS
    /\ IdleKS

NextCW ==
    \E w \in Writers :
       \/ WLoadPerformance(w)
       \/ WSavePerformance(w)
       \/ WSavePositions(w)

SpecCW == InitCW /\ [][NextCW]_vars

(* C14: writes to the shared files are serialized: when the writers have *)
(* finished their load-modify-save steps, the ledger counts every trade  *)
(* any of them posted and the positions file holds every position any of *)
(* them entered.                                                         *)
C14_InterleavedWritersLoseNothing ==
    (\A w \in Writers : wpc[w] = "idle")
       => /\ perf.late_trades = posted
          /\ entered \subseteq DOMAIN store

(* C15: the ledger only aggregates: no step lowers a kind's trade count, *)
(* and every step that posts a trade raises exactly one kind's count, by *)
(* exactly 1.                                                            *)
C15_LedgerOnlyAggregates ==
    [][ /\ perf'.late_trades >= perf.late_trades
        /\ perf'.arb_trades >= perf.arb_trades
        /\ posted' = posted + 1 =>
             \/ /\ perf'.late_trades = perf.late_trades + 1
                /\ perf'.arb_trades = perf.arb_trades
             \/ /\ perf'.arb_trades = perf.arb_trades + 1
                /\ perf'.late_trades = perf.late_trades ]_vars

---------------------------------------------------------------------------
(* The detectors and sizers as functions of their arguments.  Balances   *)
(* are integer cents, prices integer cents; profit_bot_fixed.py's net is *)
(* thousandths of a cent as profit_bot.py's.                             *)

(* Program constants of profit_bot_fixed.py *)
FIXED_FEE_PERMILLE == 70         \* TOTAL_FEE_PCT = 0.07
FIXED_MIN_ARB_PROFIT_MILLI == 500 \* MIN_ARB_PROFIT = 0.50 (cents)
FIXED_MAX_COST_TENTHS == 927     \* min_total_cost = 99.7 - 0.07 * 100

(* Program constants of scalper.py *)
HIGH_CONF_PRICE == 85
RISK_PERCENT == 25               \* RISK_PCT = 0.25
RISK_PERCENT_NORMAL == 10        \* RISK_PCT_NORMAL = 0.10
MAX_CONTRACTS == 10

(* KalshiPairs.py: estimated_fee_per_pair = 0.07 * price_sum * (1 - price_sum) *)
PAIRS_FEE_PERCENT == 7

(* The arguments the calls are followed for. *)
SZYesAsks == {0, 47, 49, 50, 60}
SZNoAsks == {47, 49, 50, 60}
SZBids == {0, 30}
SZBalances == {50, 100, 500, 1000, 5000, 10000, 200000}
SZLatePrices == {10, 20, 24}
SZScalpPrices == {60, 85, 96}

(* profit_bot_fixed.py check_arbitrage(market, balance): the cost is the *)
(* sum of the two mid prices, total2 / 2.                                *)
check_arbitrage_fixed(m, bal) ==
    LET total2 == m.yes_ask + m.yes_bid + m.no_ask + m.no_bid
        gross2 == 200 - total2
        net_profit_per_pair == (gross2 * (1000 - FIXED_FEE_PERMILLE)) \div 2
        max_pairs == (2 * bal) \div total2
        pairs == Max(1, Min(max_pairs \div KELLY_PCT_DIVISOR, MAX_PAIRS))
    IN  IF 5 * total2 < FIXED_MAX_COST_TENTHS
           /\ net_profit_per_pair >= FIXED_MIN_ARB_PROFIT_MILLI
           /\ pairs >= 1
        THEN <<TRUE, net_profit_per_pair, pairs>>
        ELSE <<FALSE, 0, 0, 0>>

(* KalshiPairs.py calculate_kalshi_arbitrage: the cost of a pair with    *)
(* its fee, in ten-thousandths of a cent.                                *)
total_cost_per_pair(price_yes, price_no) ==
    LET price_sum == price_yes + price_no
    IN  10000 * price_sum + PAIRS_FEE_PERCENT * price_sum * (100 - price_sum)

(* calculate_kalshi_arbitrage: None at a cost of $1.00 or more; with no  *)
(* pair affordable roi_percent divides 0.0 by 0.0 and raises.            *)
calculate_kalshi_arbitrage(bal, price_yes, price_no) ==
    LET cost == total_cost_per_pair(price_yes, price_no)
        total_pairs == (bal * 10000) \div cost
    IN  IF cost >= 1000000 THEN Result(FALSE, 0, 0, FALSE)
        ELSE IF total_pairs = 0 THEN Result(FALSE, 0, 0, TRUE)
        ELSE Result(TRUE, total_pairs * (1000000 - cost), total_pairs, FALSE)

(* scalper.py try_scalp: contracts for an entry at price_cents. *)
scalp_contracts(bal, price_cents) ==
    LET risk_percent == IF price_cents >= HIGH_CONF_PRICE
                        THEN RISK_PERCENT ELSE RISK_PERCENT_NORMAL
    IN  Min(MAX_CONTRACTS, Max(1, (bal * risk_percent) \div (100 * price_cents)))

(* A call of profit_bot.py's check_arbitrage. *)
CallCheckArbitrage ==
    \E ya \in SZYesAsks, na \in SZNoAsks, bal \in SZBalances, held \in BOOLEAN :
       LET m == [yes_ask |-> ya, no_ask |-> na]
           r == check_arbitrage("T1", m, bal,
                                IF held THEN [t \in {"T1"} |-> ArbRecord(1, 47, 47)]
                                        ELSE EmptyMap)
       IN  /\ zfn' = "check_arbitrage"
           /\ zin' = Args(ya, 0, na, 0, bal, held, 0)
           /\ zout' = IF r[1] THEN Result(TRUE, r[2], r[3], FALSE) ELSE NoResult
           /\ UNCHANGED <<pbVars, trVars, maVars, cwVars, bsVars, ksVars>>

(* A call of profit_bot_fixed.py's check_arbitrage. *)
CallCheckArbitrageFixed ==
    \E ya \in SZYesAsks, yb \in SZBids, na \in SZNoAsks, nb \in SZBids,
       bal \in SZBalances :
       LET m == [yes_ask |-> ya, yes_bid |-> yb, no_ask |-> na, no_bid |-> nb]
           r == check_arbitrage_fixed(m, bal)
       IN  /\ yb <= ya /\ nb <= na
           /\ zfn' = "check_arbitrage_fixed"
           /\ zin' = Args(ya, yb, na, nb, bal, FALSE, 0)
           /\ zout' = IF r[1] THEN Result(TRUE, r[2], r[3], FALSE) ELSE NoResult
           /\ UNCHANGED <<pbVars, trVars, maVars, cwVars, bsVars, ksVars>>

(* A call of KalshiPairsBot.calculate_kalshi_arbitrage. *)
CallKalshiPairs ==
    \E ya \in SZYesAsks, na \in SZNoAsks, bal \in SZBalances :
       /\ zfn' = "calculate_kalshi_arbitrage"
       /\ zin' = Args(ya, 0, na, 0, bal, FALSE, 0)
       /\ zout' = calculate_kalshi_arbitrage(bal, ya, na)
       /\ UNCHANGED <<pbVars, trVars, maVars, cwVars, bsVars, ksVars>>

(* The sizing of execute_late_game. *)
CallLateGame ==
    \E bal \in SZBalances, price \in SZLatePrices :
       /\ zfn' = "execute_late_game"
       /\ zin' = Args(0, 0, 0, 0, bal, FALSE, price)
       /\ zout' = Result(TRUE, 0, late_game_contracts(bal, price), FALSE)
       /\ UNCHANGED <<pbVars, trVars, maVars, cwVars, bsVars, ksVars>>

(* The sizing of try_scalp. *)
CallScalp ==
    \E bal \in SZBalances, price \in SZScalpPrices :
       /\ zfn' = "try_scalp"
       /\ zin' = Args(0, 0, 0, 0, bal, FALSE, price)
       /\ zout' = Result(TRUE, 0, scalp_contracts(bal, price), FALSE)
       /\ UNCHANGED <<pbVars, trVars, maVars, cwVars, bsVars, ksVars>>

(* The arguments check_late_game is followed for. *)
LGQuotes == {[yes_ask |-> 20, yes_bid |-> 18, no_ask |-> 82, no_bid |-> 80],
             [yes_ask |-> 82, yes_bid |-> 80, no_ask |-> 20, no_bid |-> 18],
             [yes_ask |-> 51, yes_bid |-> 49, no_ask |-> 51, no_bid |-> 49],
             [yes_ask |-> 25, yes_bid |-> 25, no_ask |-> 76, no_bid |-> 76]}
LGSecsLeft == {59, 60, 300, 600, 601}
LGVolumes == {4999, 5000, 6000}

(* A call of check_late_game; a close_time that cannot be read makes it *)
(* return (False, None, 0) from its except clause.                      *)
CallCheckLateGame ==
    \E q \in LGQuotes, secs \in LGSecsLeft, vol \in LGVolumes,
       close_ok \in BOOLEAN, held \in BOOLEAN :
       LET m == [yes_ask |-> q.yes_ask, yes_bid |-> q.yes_bid,
                 no_ask |-> q.no_ask, no_bid |-> q.no_bid,
                 secs_left |-> secs, volume |-> vol]
           pos == IF held THEN [t \in {"T1"} |-> LateRecord("yes", 4, 20)]
                          ELSE EmptyMap
           r == IF held \/ close_ok THEN check_late_game("T1", m, pos)
                ELSE <<FALSE, "none", 0>>
       IN  /\ zfn' = "check_late_game"
           /\ zin' = [market |-> m, close_ok |-> close_ok, held |-> held]
           /\ zout' = [ok |-> r[1], side |-> r[2], confidence |-> r[3]]
           /\ UNCHANGED <<pbVars, trVars, maVars, cwVars, bsVars, ksVars>>

RECURSIVE SumAtOrAbove(_, _)
(* sum(vol for price, vol in bids if price >= lowest) *)
SumAtOrAbove(levels, lowest) ==
    IF levels = <<>> THEN 0
    ELSE (IF Head(levels)[1] >= lowest THEN Head(levels)[2] ELSE 0)
         + SumAtOrAbove(Tail(levels), lowest)

(* flipper.py calculate_obi's get_vol: best = bids[-1][0]. *)
get_vol(levels, depth) ==
    IF levels = <<>> THEN 0
    ELSE SumAtOrAbove(levels, levels[Len(levels)][1] - depth)

(* flipper.py's calculate_obi as the fraction <<v_yes - v_no, v_yes + v_no>>; *)
(* <<0, 1>> when both volumes are 0.                                         *)
flipper_calculate_obi(ob) ==
    LET v_yes == get_vol(ob.yes, OBI_DEPTH)
        v_no == get_vol(ob.no, OBI_DEPTH)
    IN  IF v_yes + v_no = 0 THEN <<0, 1>> ELSE <<v_yes - v_no, v_yes + v_no>>

(* Order books as get_orderbook() delivers them: each side lists its bids *)
(* as [price, quantity] from the lowest price to the best one.            *)
OBIBooks ==
    {[yes |-> <<>>, no |-> <<>>],
     [yes |-> <<<<48, 500>>, <<49, 300>>, <<50, 200>>>>,
      no |-> <<<<48, 100>>, <<49, 50>>>>],
     [yes |-> <<<<47, 10>>>>, no |-> <<<<51, 30>>>>],
     [yes |-> <<<<49, 20>>>>, no |-> <<>>],
     [yes |-> <<<<30, 1000>>, <<50, 10>>>>, no |-> <<<<50, 100>>>>],
     [yes |-> <<<<45, 10>>, <<46, 10>>, <<47, 10>>, <<48, 10>>, <<49, 10>>,
                <<50, 100>>>>,
      no |-> <<<<49, 80>>>>]}

(* A call of flipper_fixed.py's calculate_obi. *)
CallCalculateObi ==
    \E ob \in OBIBooks :
       /\ zfn' = "flipper_fixed.calculate_obi"
       /\ zin' = [book |-> ob]
       /\ zout' = [obi |-> calculate_obi(ob)]
       /\ UNCHANGED <<pbVars, trVars, maVars, cwVars, bsVars, ksVars>>

(* A call of flipper.py's calculate_obi. *)
CallFlipperCalculateObi ==
    \E ob \in OBIBooks :
       /\ zfn' = "flipper.calculate_obi"
       /\ zin' = [book |-> ob]
       /\ zout' = [obi |-> flipper_calculate_obi(ob)]
       /\ UNCHANGED <<pbVars, trVars, maVars, cwVars, bsVars, ksVars>>

InitSZ ==
    /\ AUTO_TRADE = FALSE
    /\ IdlePB
    /\ IdleTR
    /\ IdleMA
    /\ IdleCW
    /\ IdleSZ
    /\ IdleBS
    /\ IdleKS

NextSZ ==
    \/ CallCheckArbitrage
    \/ CallCheckArbitrageFixed
    \/ CallKalshiPairs
    \/ CallLateGame
    \/ CallScalp
    \/ CallCheckLateGame
    \/ CallCalculateObi
    \/ CallFlipperCalculateObi

SpecSZ == InitSZ /\ [][NextSZ]_vars

(* C16: a detector accepts a snapshot of a ticker that is not held       *)
(* exactly when both asks are positive and yes_ask + no_ask is below the *)
(* detector's bound (99.5 in profit_bot.py, 92.7 in profit_bot_fixed.py),*)
(* and the net it reports is gross - gross * fee with                    *)
(* gross = 100 - (yes_ask + no_ask).                                     *)
C16_AcceptsExactlyBelowBound ==
    LET total == zin.yes_ask + zin.no_ask
        asks == zin.yes_ask > 0 /\ zin.no_ask > 0
    IN  /\ (zfn = "check_arbitrage" /\ ~zin.held) =>
              /\ zout.ok <=> (asks /\ 2 * total < MAX_COST_HALF_CENTS)
              /\ zout.ok => zout.net = (100 - total) * (1000 - TOTAL_FEE_PERMILLE)
        /\ zfn = "check_arbitrage_fixed" =>
              /\ zout.ok <=> (asks /\ 10 * total < FIXED_MAX_COST_TENTHS)
              /\ zout.ok => zout.net = (100 - total) * (1000 - FIXED_FEE_PERMILLE)
(* C17: an accepted arbitrage is affordable: the pair count is at most   *)
(* floor(bankroll / cost_per_pair), so pairs * (yes_ask + no_ask) does   *)
(* not exceed the bankroll.                                              *)
C17_PairsAffordable ==
    (zfn \in {"check_arbitrage", "calculate_kalshi_arbitrage"} /\ zout.ok)
       => /\ zout.n <= zin.bal \div (zin.yes_ask + zin.no_ask)
          /\ zout.n * (zin.yes_ask + zin.no_ask) <= zin.bal
(* C18: every contract count a sizer produces is in [1, max_contracts]: *)
(* at least 1 and at most the cap of its program (MAX_CONTRACTS in       *)
(* scalper.py, the 100 of profit_bot.py).                                *)
C18_ContractsWithinCap ==
    /\ zfn = "try_scalp" => (1 <= zout.n /\ zout.n <= MAX_CONTRACTS)
    /\ zfn = "execute_late_game" => (1 <= zout.n /\ zout.n <= MAX_PAIRS)
    /\ (zfn = "check_arbitrage" /\ zout.ok) => (1 <= zout.n /\ zout.n <= MAX_PAIRS)

(* C19: the cost of a late-game entry, contracts * price, is at most     *)
(* BANKROLL_PCT of the bankroll.                                         *)
C19_LateGameCostWithinBankrollPct ==
    zfn = "execute_late_game"
       => 1000 * zout.n * zin.price <= BANKROLL_PERMILLE * zin.bal
(* C20: a reconciliation that read the portfolio reports, with an alert,  *)
(* every mismatch between the broker and the local records: a ticker the  *)
(* broker holds that has no local record, and an arbitrage record whose   *)
(* count differs from the broker's.                                       *)
C20_ReconcileReportsEveryMismatch ==
    (ev.op = "reconcile" /\ ev.fetch = "ok") =>
       LET untracked == {t \in Tickers : broker[t] > 0 /\ t \notin DOMAIN store}
           miscounted == {t \in DOMAIN store :
                             /\ store[t].type = "arbitrage"
                             /\ broker[t] # store[t].n * 2}
       IN  /\ untracked \cup miscounted \subseteq ev.discs
           /\ (untracked \cup miscounted # {}) => ev.alerts >= 1

---------------------------------------------------------------------------
(* flipper_fixed.py: a refused entry order *)

(* C21: after a refused entry order trade_market holds and monitors no    *)
(* position for the ticker, and the ticker stays open to a new entry      *)
(* attempt in the next scan: run() does not count it as traded.           *)
C21_RejectedEntryRetried ==
    [][ (/\ fpc = "for" /\ orders' # orders /\ Len(orders') = 1
         /\ orders'[1].action = "buy" /\ ~orders'[1].ok)
        => /\ trade' = NoTrade /\ ended' = "none" /\ fpc' = "for"
           /\ (scanned' \ scanned) \cap traded' = {} ]_vars

---------------------------------------------------------------------------
(* profit_bot.py: dry-run and live mode *)

(* C22: dry-run and live mode leave the same decision trace: a late-game  *)
(* execution that records and saves its position posts one late trade to  *)
(* the performance ledger, whether AUTO_TRADE is set or not.              *)
C22_LedgerPostedInBothModes ==
    [][ (pc = "scan" /\ ev'.op = "late_game" /\ ev'.wrote)
        => perf'.late_trades = perf.late_trades + 1 ]_vars

---------------------------------------------------------------------------
(* multi_account_arb.py: the order of execution within a scan *)

(* C23: the arbitrages of one scan are executed in order of decreasing  *)
(* profit: none is executed before another of strictly higher profit.   *)
C23_HighestNetFirst ==
    \A i \in 1..Len(cycle) : \A j \in 1..Len(cycle) :
       i < j => cycle[i].profit >= cycle[j].profit

(* C23 witness: two arbitrages of different profit were executed in one *)
(* scan, the higher first.                                              *)
C23_Witness ==
    /\ Len(cycle) = 2
    /\ cycle[1].profit > cycle[2].profit
    /\ arbs = <<>>

---------------------------------------------------------------------------
(* flipper_fixed.py: the side and price pick_side returns *)

(* C24: the position trade_market enters on pick_side's answer is never  *)
(* priced above MAX_ENTRY_PRICE, and when |OBI| >= 0.10 it is on the     *)
(* side of the imbalance's sign, priced at that side's ask.              *)
C24_EntryWithinPriceOnObiSide ==
    (fpc = "monitor" /\ ended = "open") =>
       LET obi == trade.current_obi
           obi_side == IF obi[1] > 0 THEN "yes" ELSE "no"
       IN  /\ trade.entry <= MAX_ENTRY_PRICE
           /\ 10 * Abs(obi[1]) >= obi[2] =>
                 /\ trade.side = obi_side
                 /\ trade.entry = IF obi_side = "yes" THEN trade.market.yes_ask
                                                      ELSE trade.market.no_ask

---------------------------------------------------------------------------
(* profit_bot.py: check_late_game as a function of its arguments *)

(* C25: check_late_game emits an opportunity only with a readable close  *)
(* time 60 to MAX_TIME_LEFT seconds away, a volume of MIN_VOLUME or      *)
(* more and no position held for the ticker, and it emits one side: the  *)
(* underpriced one.                                                      *)
C25_LateGameOnlyInWindow ==
    (zfn = "check_late_game" /\ zout.ok) =>
       LET m == zin.market IN
       /\ zin.close_ok
       /\ MIN_TIME_LEFT <= m.secs_left /\ m.secs_left <= MAX_TIME_LEFT
       /\ m.volume >= MIN_VOLUME
       /\ ~zin.held
       /\ zout.side \in {"yes", "no"}
       /\ zout.side = "yes" => m.yes_ask + m.yes_bid < m.no_ask + m.no_bid
       /\ zout.side = "no" => m.no_ask + m.no_bid < m.yes_ask + m.yes_bid

(* C25 witness: an opportunity emitted at the edge of the window, at the *)
(* minimum volume.                                                       *)
C25_Witness ==
    /\ zfn = "check_late_game" /\ zout.ok
    /\ zin.market.secs_left \in {MIN_TIME_LEFT, MAX_TIME_LEFT}
    /\ zin.market.volume = MIN_VOLUME

---------------------------------------------------------------------------
(* flipper_fixed.py: termination of the monitor loop *)

---------------------------------------------------------------------------
(* profit_bot.py: after a write to the files has raised *)

(* C27: once a write to the positions or performance file has raised,   *)
(* the process places no new entry order: no later step of its scans    *)
(* sends a buy order.                                                   *)
C27_NoEntryAfterWriteRaised ==
    [][ (pc = "scan" /\ write_raised)
        => ~(ev'.op = "late_game" /\ ev'.orders # <<>>) ]_vars

---------------------------------------------------------------------------
(* flipper.py: an entry after a failed balance request *)

(* C28: in a cycle whose authenticated balance request fails no entry    *)
(* order is placed: every entry order follows a balance that was fetched. *)
C28_NoEntryWithoutBalance ==
    [][ (fpc = "for" /\ fpc' = "monitor" /\ orders' # <<>>
         /\ orders'[1].action = "buy")
        => trade'.balance_ok ]_vars

---------------------------------------------------------------------------
(* Sizing against the bankroll *)

(* The sizers that take the bankroll: check_arbitrage, execute_late_game *)
(* and try_scalp.                                                        *)
Sizers == {"check_arbitrage", "execute_late_game", "try_scalp"}

(* Two calls of one sizer on the same opportunity. *)
SameOpportunity(a, b) ==
    /\ a.yes_ask = b.yes_ask /\ a.yes_bid = b.yes_bid
    /\ a.no_ask = b.no_ask /\ a.no_bid = b.no_bid
    /\ a.held = b.held /\ a.price = b.price

(* C29: sizing is monotonic in the bankroll: when a sizer is called for *)
(* the same opportunity with bankroll x and then with bankroll 2x, the  *)
(* second contract count is at least the first.                         *)
C29_SizeMonotonicInBankroll ==
    [][ (/\ zfn \in Sizers /\ zfn' = zfn
         /\ SameOpportunity(zin, zin')
         /\ zin'.bal = 2 * zin.bal
         /\ zout.ok)
        => (zout'.ok /\ zout'.n >= zout.n) ]_vars

C29_Witness ==
    /\ zfn = "execute_late_game"
    /\ zin.bal = 2 * 5000
    /\ zout.n > late_game_contracts(5000, zin.price)
    /\ zout.n > 1

---------------------------------------------------------------------------
(* Order book imbalance over the cents window *)

(* The best price of a side: the highest bid it lists. *)
BestPrice(levels) ==
    CHOOSE p \in {levels[i][1] : i \in 1..Len(levels)} :
        \A i \in 1..Len(levels) : levels[i][1] <= p

(* The volume of a side within OBI_DEPTH cents of its best price. *)
WindowedVolume(levels) ==
    IF levels = <<>> THEN 0
    ELSE SumAtOrAbove(levels, BestPrice(levels) - OBI_DEPTH)

ObiCalls == {"flipper_fixed.calculate_obi", "flipper.calculate_obi"}

(* C30: for every order book calculate_obi returns (Vyes - Vno) /        *)
(* (Vyes + Vno) over the volume within the cents window of each side: a  *)
(* value in [-1, 1], positive when the YES side has more windowed        *)
(* volume, and 0 when both windowed volumes are 0.                       *)
C30_ObiOverCentsWindow ==
    zfn \in ObiCalls =>
        LET Vyes == WindowedVolume(zin.book.yes)
            Vno == WindowedVolume(zin.book.no)
            num == zout.obi[1]
            den == zout.obi[2]
        IN  /\ den > 0
            /\ -den <= num /\ num <= den
            /\ (Vyes + Vno = 0) => num = 0
            /\ (Vyes + Vno > 0) => num * (Vyes + Vno) = (Vyes - Vno) * den
            /\ (Vyes > Vno) => num > 0

---------------------------------------------------------------------------
(* bot_state.py: load_state and save_state over bots_state.json *)

(* The bots whose running flag the state map keeps. *)
BotKeys == {"scanner", "credit_spread"}

(* The maps save_state is called with: Dict[str, bool]. *)
BotStates == UNION {[S -> BOOLEAN] : S \in SUBSET BotKeys}

(* json.dump(state, f): the members of the JSON object, each a key with *)
(* the literal true or false.                                           *)
json_dump(st) ==
    {<<k, IF st[k] THEN "true" ELSE "false">> : k \in DOMAIN st}

(* json.load(f): the dict of the object's members. *)
json_load(text) ==
    [k \in {member[1] : member \in text} |->
        (CHOOSE member \in text : member[1] = k)[2] = "true"]

(* What open(STATE_FILE, "w") and json.dump can do: succeed, raise at  *)
(* open (the file keeps its content) or raise during the dump (the     *)
(* truncated file keeps part of the text).                             *)
WriteOutcomes == {"ok", "open_raises", "dump_raises"}

(* The file after save_state(st): an exception is swallowed. *)
save_state(file, st, outcome) ==
    CASE outcome = "ok" -> TextFile(json_dump(st))
      [] outcome = "open_raises" -> file
      [] outcome = "dump_raises" -> UnreadableFile

(* What load_state() returns: {} from either except clause. *)
load_state(file) ==
    IF file.kind = "missing" THEN EmptyMap
    ELSE IF file.kind = "unreadable" THEN EmptyMap
    ELSE json_load(file.text)

SaveState ==
    /\ \E st \in BotStates, outcome \in WriteOutcomes :
         /\ state_file' = save_state(state_file, st, outcome)
         /\ bs_state' = st
    /\ bs_call' = "save_state"
    /\ UNCHANGED bs_loaded
    /\ UNCHANGED <<pbVars, trVars, maVars, cwVars, szVars, ksVars>>

LoadState ==
    /\ bs_loaded' = load_state(state_file)
    /\ bs_call' = "load_state"
    /\ UNCHANGED <<state_file, bs_state>>
    /\ UNCHANGED <<pbVars, trVars, maVars, cwVars, szVars, ksVars>>

(* os.remove(bots_state.json), as the test does before and after. *)
RemoveStateFile ==
    /\ state_file # MissingFile
    /\ state_file' = MissingFile
    /\ bs_call' = "remove"
    /\ UNCHANGED <<bs_state, bs_loaded>>
    /\ UNCHANGED <<pbVars, trVars, maVars, cwVars, szVars, ksVars>>

InitBS ==
    /\ AUTO_TRADE = FALSE
    /\ IdlePB
    /\ IdleTR
    /\ IdleMA
    /\ IdleCW
    /\ IdleSZ
    /\ IdleKS
    /\ state_file \in {MissingFile, UnreadableFile}
                      \cup {TextFile(json_dump(st)) : st \in BotStates}
    /\ bs_call = "none"
    /\ bs_state = EmptyMap
    /\ bs_loaded = EmptyMap

NextBS ==
    \/ SaveState
    \/ LoadState
    \/ RemoveStateFile

SpecBS == InitBS /\ [][NextBS]_vars

(* C31: load_state() called right after save_state(st) returns a map equal *)
(* to st, and load_state() returns the empty map when the state file is    *)
(* missing or unreadable.                                                  *)
C31_SaveThenLoadRoundTrip ==
    [][ bs_call' = "load_state"
        => /\ (bs_call = "save_state" => bs_loaded' = bs_state)
           /\ (state_file.kind \in {"missing", "unreadable"}
               => bs_loaded' = EmptyMap) ]_vars

---------------------------------------------------------------------------
(* KalshiScanner.py: KalshiScannerBot.run, scan and _signal_handler *)

MaxScans == 3         \* scans a run is followed for

SCAN_INTERVAL == 10

(* Balances get_balance() returns (cents) and the best ask of the  *)
(* opportunity find_opportunities() puts first (0: it finds none). *)
KSBalances == {2, 5000}
KSAsks == {0, 30}

(* scan() raises: with AUTO_TRADE, an opportunity and no balance the    *)
(* "insufficient balance" line formats None with :.2f.                  *)
scan_raises(auto, fetched, ask) == auto /\ ~fetched /\ ask > 0

(* scan() sends an entry order. *)
scan_orders(auto, fetched, bal, ask) ==
    auto /\ fetched /\ ask > 0 /\ bal >= ask

(* run() logs its banner and reaches the while loop. *)
KSStart ==
    /\ kpc = "init"
    /\ kpc' = "top"
    /\ UNCHANGED <<running, ksleep, kscans, kwrites, trades_today, signalled>>
    /\ UNCHANGED <<pbVars, trVars, maVars, cwVars, szVars, bsVars>>

(* while self.running: the test passes and scan() is called. *)
KSWhileScan ==
    /\ kpc = "top" /\ running
    /\ kscans < MaxScans
    /\ kpc' = "scan"
    /\ kscans' = kscans + 1
    /\ UNCHANGED <<running, ksleep, kwrites, trades_today, signalled>>
    /\ UNCHANGED <<pbVars, trVars, maVars, cwVars, szVars, bsVars>>

(* while self.running: the test fails; "Scanner stopped." *)
KSWhileExit ==
    /\ kpc = "top" /\ ~running
    /\ kpc' = "stopped"
    /\ UNCHANGED <<running, ksleep, kscans, kwrites, trades_today, signalled>>
    /\ UNCHANGED <<pbVars, trVars, maVars, cwVars, szVars, bsVars>>

(* scan() runs to its end: the order when there is one, then save_state, *)
(* whose write succeeds or raises into its own handler.                  *)
KSScanReturns ==
    /\ kpc = "scan"
    /\ \E fetched \in BOOLEAN, bal \in KSBalances, ask \in KSAsks,
          placed \in BOOLEAN, written \in BOOLEAN :
         /\ ~scan_raises(AUTO_TRADE, fetched, ask)
         /\ trades_today' = IF scan_orders(AUTO_TRADE, fetched, bal, ask) /\ placed
                            THEN Min(trades_today + 1, MaxScans)
                            ELSE trades_today
         /\ kwrites' = IF written THEN kwrites + 1 ELSE kwrites
    /\ kpc' = "sleep"
    /\ ksleep' = SCAN_INTERVAL
    /\ UNCHANGED <<running, kscans, signalled>>
    /\ UNCHANGED <<pbVars, trVars, maVars, cwVars, szVars, bsVars>>

(* scan() raises before its save_state; run() logs "Scan error". *)
KSScanRaises ==
    /\ kpc = "scan"
    /\ \E fetched \in BOOLEAN, ask \in KSAsks :
         scan_raises(AUTO_TRADE, fetched, ask)
    /\ kpc' = "sleep"
    /\ ksleep' = SCAN_INTERVAL
    /\ UNCHANGED <<running, kscans, kwrites, trades_today, signalled>>
    /\ UNCHANGED <<pbVars, trVars, maVars, cwVars, szVars, bsVars>>

(* for _ in range(SCAN_INTERVAL): time.sleep(1) *)
KSSleepTick ==
    /\ kpc = "sleep" /\ ksleep > 0 /\ running
    /\ ksleep' = ksleep - 1
    /\ UNCHANGED <<running, kpc, kscans, kwrites, trades_today, signalled>>
    /\ UNCHANGED <<pbVars, trVars, maVars, cwVars, szVars, bsVars>>

(* if not self.running: break *)
KSSleepBreak ==
    /\ kpc = "sleep" /\ ksleep > 0 /\ ~running
    /\ kpc' = "top"
    /\ ksleep' = 0
    /\ UNCHANGED <<running, kscans, kwrites, trades_today, signalled>>
    /\ UNCHANGED <<pbVars, trVars, maVars, cwVars, szVars, bsVars>>

(* The sleep loop runs out. *)
KSSleepDone ==
    /\ kpc = "sleep" /\ ksleep = 0
    /\ kpc' = "top"
    /\ UNCHANGED <<running, ksleep, kscans, kwrites, trades_today, signalled>>
    /\ UNCHANGED <<pbVars, trVars, maVars, cwVars, szVars, bsVars>>

(* _signal_handler: SIGTERM or SIGINT arrives while run() is anywhere. *)
KSSignal ==
    /\ kpc # "stopped"
    /\ running
    /\ running' = FALSE
    /\ signalled' = kscans
    /\ UNCHANGED <<kpc, ksleep, kscans, kwrites, trades_today>>
    /\ UNCHANGED <<pbVars, trVars, maVars, cwVars, szVars, bsVars>>

InitKS ==
    /\ AUTO_TRADE \in BOOLEAN
    /\ IdlePB
    /\ IdleTR
    /\ IdleMA
    /\ IdleCW
    /\ IdleSZ
    /\ IdleBS
    /\ IdleKS

NextKS ==
    \/ KSStart
    \/ KSWhileScan
    \/ KSWhileExit
    \/ KSScanReturns
    \/ KSScanRaises
    \/ KSSleepTick
    \/ KSSleepBreak
    \/ KSSleepDone
    \/ KSSignal

SpecKS == InitKS /\ [][NextKS]_vars

(* The run loop's steps are taken as long as the process lives; the *)
(* signal is the environment's and may never come.                  *)
SpecKSLive == SpecKS /\ WF_vars(NextKS)

(* C32: once a shutdown signal has set running = False the scanner starts *)
(* no further scan, completes the scan in progress including its state   *)
(* write, and then terminates.                                           *)
C32_ShutdownCompletesScanThenStops ==
    [][ ~running
        => /\ ~(kpc # "scan" /\ kpc' = "scan")
           /\ (kpc = "scan" /\ kpc' # "scan") => kwrites' = kwrites + 1
           /\ (kpc = "top") => kpc' = "stopped" ]_vars

---------------------------------------------------------------------------
(* profit_bot.py: run() after check_arbitrage accepts *)

(* C33: whenever check_arbitrage accepts a market during a scan cycle,   *)
(* run() invokes execute_arbitrage for that market in the same cycle and *)
(* then goes on to examine the remaining markets of the cycle.           *)
C33_AcceptedArbitrageExecuted ==
    [][ (pc = "scan" /\ ev'.arb_accepted)
        => (ev'.op = "arbitrage" /\ pc' = "scan" /\ markets \subseteq markets') ]_vars

---------------------------------------------------------------------------
(* profit_bot.py: the position record of a refused entry *)

(* C34: in live mode a local position record is created, and the ticker *)
(* thereby blocked from further entries, only if the entry order for it *)
(* was accepted by the exchange; a failed entry leaves the position     *)
(* store unchanged.                                                     *)
C34_RecordOnlyForAcceptedEntry ==
    [][ (/\ pc = "scan" /\ AUTO_TRADE
         /\ ev'.op = "late_game"
         /\ \E i \in 1..Len(ev'.orders) : ~ev'.orders[i].ok)
        => (positions' = positions /\ store' = store) ]_vars

---------------------------------------------------------------------------
(* profit_bot.py: ledger posts of a dry run *)

(* C35: in dry-run mode a market is posted to the performance ledger at  *)
(* most once while it remains open, across any sequence of scan cycles   *)
(* and periodic reconciliations: the market a step posts has no earlier  *)
(* post since it opened.                                                 *)
C35_DryRunPostsOncePerOpenMarket ==
    [][ (~AUTO_TRADE /\ pc = "scan" /\ perf'.late_trades > perf.late_trades)
        => \A t \in Tickers :
              openEntries'[t] # openEntries[t] => openEntries[t] = 0 ]_vars

---------------------------------------------------------------------------
(* flipper_fixed.py: the flips counter *)

(* C36: in trade_market the flips counter never exceeds MAX_FLIPS: with *)
(* MAX_FLIPS = 0 it stays 0 for the whole life of the position.         *)
C36_FlipsWithinMaxFlips ==
    trade.flips <= MAX_FLIPS

---------------------------------------------------------------------------
(* flipper_fixed.py: the time left at an entry *)

(* C37: flipper_fixed never places an entry order for a market that has *)
(* fewer than MIN_SECS_LEFT seconds to close at the moment the order is *)
(* placed, even when an earlier market of the same scan was monitored   *)
(* first: a position held in live mode was entered with at least        *)
(* MIN_SECS_LEFT seconds left.                                          *)
C37_EntryWithMinSecsLeft ==
    (AUTO_TRADE /\ fpc = "monitor" /\ orders # <<>> /\ orders[1].action = "buy")
        => trade.sl >= MIN_SECS_LEFT

---------------------------------------------------------------------------
(* C38: for each entered position the monitor places at most one sell   *)
(* order over the position's whole life, on the side that was bought    *)
(* and for the contract count of the entry.  orders holds the orders of *)
(* the current trade_market call, the entry first.                      *)
SellOrders == {i \in 1..Len(orders) : orders[i].action = "sell"}

C38_AtMostOneSellSameSideAndCount ==
    /\ Cardinality(SellOrders) <= 1
    /\ \A i \in SellOrders :
         /\ orders[1].action = "buy" /\ orders[1].ok
         /\ orders[i].side = orders[1].side
         /\ orders[i].count = orders[1].count

C38_Witness ==
    /\ AUTO_TRADE /\ fpc = "for" /\ ended = "above_threshold"
    /\ Len(orders) = 2 /\ orders[1].action = "buy"
    /\ orders[2].action = "sell" /\ orders[2].side = trade.side
    /\ orders[2].count = get_contracts(BALANCE_CENTS, trade.entry)

=============================================================================
